---- MODULE Spec2Model ----
(***************************************************************************)
(* A state-machine model of the diplomacy negotiation bot: the claim       *)
(* registry, the cooldown limiter, the thread store with its inline and    *)
(* batched compaction, the orders pipeline with its grammar filter, the    *)
(* outreach fan-out and the press lock.                                    *)
(*                                                                         *)
(* One action models one synchronous segment of an event handler: the code *)
(* between two suspension points (await) of on_message.  Handlers of       *)
(* different events interleave only at those points.                       *)
(***************************************************************************)
EXTENDS Integers, Sequences, FiniteSets, TLC

(***************************************************************************)
(* Bounds of the model.                                                    *)
(***************************************************************************)
MaxClock == 2
MaxEvents == 4
NumSlots == 2

(***************************************************************************)
(* Program constants.  The two configurable ones are instantiated small:   *)
(* one clock tick stands for the cooldown window, and the raw window keeps 2 turns. *)
(***************************************************************************)
USER_COOLDOWN_SECONDS == 1
RAW_TURNS_TO_KEEP == 2
KEEP_LAST_N_MSGS == 2

AI_COUNTRY == "Austria"
VALID_COUNTRIES ==
    {"England", "France", "Germany", "Italy", "Austria", "Russia", "Turkey"}

Users == {"u1", "u2"}
Names == {"n1"}
Slots == 1 .. NumSlots
NoUser == "nobody"

\* The timestamp '' of a thread row that was never summarised; every real
\* timestamp is later than it.
EmptyTs == 0

VARIABLES
    now,          \* the wall clock, datetime.now(timezone.utc)
    nev,          \* number of gateway events dispatched so far
    players,      \* table players: user -> [display_name, country]
    threads,      \* table threads: user -> [messages, summary, last_updated, summary_last_updated]
    cooldown,     \* table cooldown: user -> last_message_at
    game,         \* table game_state: phase and state_text of the single row
    ai_memory,    \* table ai_memory, the single row's commitments
    press_locked, \* the press lock
    dm,           \* the DM handlers in flight, one per slot
    ctl,          \* the control-channel handler in flight
    result,       \* what the last handled event answered
    val           \* a part of the program run on its own: its input and its output

vars == <<now, nev, players, threads, cooldown, game, ai_memory, press_locked,
          dm, ctl, result, val>>

(***************************************************************************)
(* Strings.  str.strip() and lower() on the inputs the model draws.        *)
(***************************************************************************)
ClaimArgs == {"England", " England ", "england", "France", "Austria"}

Strip(s) == CASE s = " England " -> "England" [] s = " " -> "" [] OTHER -> s

Lower(s) ==
    CASE s = "England" -> "england"
      [] s = "France" -> "france"
      [] s = "Germany" -> "germany"
      [] s = "Italy" -> "italy"
      [] s = "Austria" -> "austria"
      [] s = "Russia" -> "russia"
      [] s = "Turkey" -> "turkey"
      [] OTHER -> s

(***************************************************************************)
(* Table players.                                                          *)
(***************************************************************************)
\* A table without the index: any rows are accepted.
NoUniqueIndex(p) == TRUE

\* The partial unique index idx_players_country_unique on lower(country).
idx_players_country_unique(p) ==
    \A a, b \in DOMAIN p :
        (a # b /\ p[a].country # "" /\ p[b].country # "")
            => Lower(p[a].country) # Lower(p[b].country)

\* INSERT ... ON CONFLICT(discord_user_id) DO UPDATE of claim_country.
UpsertPlayer(p, u, name, country) ==
    [x \in DOMAIN p \cup {u} |->
        IF x # u THEN p[x]
        ELSE IF u \in DOMAIN p
             THEN [display_name |-> name,
                   country |-> IF p[u].country = "" THEN country
                               ELSE p[u].country]
             ELSE [display_name |-> name, country |-> country]]

get_player_country(u) ==
    IF u \in DOMAIN players THEN players[u].country ELSE ""

\* claim_country without its first test, the user's existing claim.
claim_country_unlocked(u, name, arg) ==
    LET country == Strip(arg)
        tried == UpsertPlayer(players, u, name, country)
    IN  IF country \notin VALID_COUNTRIES
        THEN [out |-> "Unknown", info |-> country, players |-> players]
        ELSE IF ~idx_players_country_unique(tried)
        THEN [out |-> "CountryTaken", info |-> country, players |-> players]
        ELSE [out |-> "Registered", info |-> country, players |-> tried]

\* claim_country whose INSERT is not undone when the index rejects the
\* country: the user's row stays, without a country.
claim_country_no_rollback(u, name, arg) ==
    LET country == Strip(arg)
        tried == UpsertPlayer(players, u, name, country)
    IN  IF country \notin VALID_COUNTRIES
        THEN [out |-> "Unknown", info |-> country, players |-> players]
        ELSE IF get_player_country(u) # ""
        THEN [out |-> "AlreadyClaimed", info |-> players[u].country,
              players |-> players]
        ELSE IF ~idx_players_country_unique(tried)
        THEN [out |-> "CountryTaken", info |-> country,
              players |-> UpsertPlayer(players, u, name, "")]
        ELSE [out |-> "Registered", info |-> country, players |-> tried]

\* claim_country: the outcome and the table it leaves.
claim_country(u, name, arg) ==
    LET country == Strip(arg)
        tried == UpsertPlayer(players, u, name, country)
    IN  IF country \notin VALID_COUNTRIES
        THEN [out |-> "Unknown", info |-> country, players |-> players]
        ELSE IF get_player_country(u) # ""
        THEN [out |-> "AlreadyClaimed", info |-> players[u].country,
              players |-> players]
        ELSE IF ~idx_players_country_unique(tried)
        THEN [out |-> "CountryTaken", info |-> country, players |-> players]
        ELSE [out |-> "Registered", info |-> country, players |-> tried]

\* get_claims, as the set of (country, user) pairs of claimed players.
get_claims ==
    {<<players[u].country, u>> : u \in {x \in DOMAIN players : players[x].country # ""}}

(***************************************************************************)
(* Table cooldown.                                                         *)
(***************************************************************************)
\* A test that still drops a message exactly one window after the last.
CooldownAllowsLate(u, now_ts) ==
    ~(u \in DOMAIN cooldown /\ (now_ts - cooldown[u]) <= USER_COOLDOWN_SECONDS)

\* The test of check_and_update_cooldown under a configured window.
CooldownAllowsWithin(window, u, now_ts) ==
    ~(u \in DOMAIN cooldown /\ (now_ts - cooldown[u]) < window)

CooldownAllows(u, now_ts) == CooldownAllowsWithin(USER_COOLDOWN_SECONDS, u, now_ts)

\* A gate that stamps the record of every message, dropped ones too.
check_and_update_cooldown_stamping(window, u, now_ts) ==
    [x \in DOMAIN cooldown \cup {u} |-> IF x = u THEN now_ts ELSE cooldown[x]]

\* check_and_update_cooldown under a configured window: the table it leaves.
check_and_update_cooldown_within(window, u, now_ts) ==
    IF CooldownAllowsWithin(window, u, now_ts)
    THEN [x \in DOMAIN cooldown \cup {u} |-> IF x = u THEN now_ts ELSE cooldown[x]]
    ELSE cooldown

check_and_update_cooldown(u, now_ts) ==
    IF CooldownAllows(u, now_ts)
    THEN [x \in DOMAIN cooldown \cup {u} |-> IF x = u THEN now_ts ELSE cooldown[x]]
    ELSE cooldown

(***************************************************************************)
(* Table threads.                                                          *)
(***************************************************************************)
\* summary_last_updated=None of save_thread.
NoneTs == -1

UserMsg(text) == [role |-> "user", content |-> text]
AssistantMsg(text) == [role |-> "assistant", content |-> text]

\* messages[-n:] for n > 0.
LastN(msgs, n) ==
    IF Len(msgs) <= n THEN msgs ELSE SubSeq(msgs, Len(msgs) - n + 1, Len(msgs))

\* messages[:-n] for n > 0.
AllButLastN(msgs, n) ==
    IF Len(msgs) <= n THEN <<>> ELSE SubSeq(msgs, 1, Len(msgs) - n)

load_thread(u) ==
    IF u \in DOMAIN threads
    THEN [messages |-> threads[u].messages, summary |-> threads[u].summary,
          summary_last_updated |-> threads[u].summary_last_updated]
    ELSE [messages |-> <<>>, summary |-> "", summary_last_updated |-> EmptyTs]

\* save_thread at clock t: the table it leaves.
save_thread(u, messages, summary, summary_last_updated, t) ==
    LET summary_ts ==
            IF summary_last_updated = NoneTs
            THEN (IF u \in DOMAIN threads THEN threads[u].summary_last_updated ELSE t)
            ELSE summary_last_updated
        row == [messages |-> messages, summary |-> summary,
                last_updated |-> t, summary_last_updated |-> summary_ts]
    IN  [x \in DOMAIN threads \cup {u} |-> IF x = u THEN row ELSE threads[x]]

\* The WHERE clause of get_threads_needing_summary_refresh on one thread row.
NeedsRefresh(row) ==
    row.summary_last_updated = EmptyTs \/ row.last_updated > row.summary_last_updated

\* get_threads_needing_summary_refresh: the users of the rows selected.
get_threads_needing_summary_refresh ==
    {u \in DOMAIN threads \cap DOMAIN players : NeedsRefresh(threads[u])}

\* An update that leaves summary_last_updated as it was.
update_thread_summary_keeping_time(th, u, new_summary, keep_last_n_msgs, t) ==
    IF u \notin DOMAIN th THEN th
    ELSE [th EXCEPT ![u] =
            [messages |-> IF keep_last_n_msgs > 0
                          THEN LastN(th[u].messages, keep_last_n_msgs) ELSE <<>>,
             summary |-> new_summary,
             last_updated |-> th[u].last_updated,
             summary_last_updated |-> th[u].summary_last_updated]]

\* An update that keeps the whole ledger.
update_thread_summary_no_truncate(th, u, new_summary, keep_last_n_msgs, t) ==
    IF u \notin DOMAIN th THEN th
    ELSE [th EXCEPT ![u] =
            [messages |-> th[u].messages,
             summary |-> new_summary,
             last_updated |-> th[u].last_updated,
             summary_last_updated |-> t]]

\* update_thread_summary_and_truncate at clock t: the table it leaves.
update_thread_summary_and_truncate(th, u, new_summary, keep_last_n_msgs, t) ==
    IF u \notin DOMAIN th THEN th
    ELSE [th EXCEPT ![u] =
            [messages |-> IF keep_last_n_msgs > 0
                          THEN LastN(th[u].messages, keep_last_n_msgs) ELSE <<>>,
             summary |-> new_summary,
             last_updated |-> th[u].last_updated,
             summary_last_updated |-> t]]

\* get_all_summaries_for_claimed_players: country -> summary.
get_all_summaries_for_claimed_players ==
    LET us == DOMAIN threads \cap DOMAIN players
    IN  [c \in {players[u].country : u \in us} |->
            threads[CHOOSE u \in us : players[u].country = c].summary]

(***************************************************************************)
(* Inline compaction.                                                      *)
(***************************************************************************)
Summaries == {"sA", "sB"}

\* A test that summarises as soon as the window is full.
MustSummarizeAtWindow(messages) == Len(messages) >= RAW_TURNS_TO_KEEP

\* maybe_summarize_thread's test, and the two slices it takes.
MustSummarize(messages) == Len(messages) > RAW_TURNS_TO_KEEP
Older(messages) == AllButLastN(messages, RAW_TURNS_TO_KEEP)
Newer(messages) == LastN(messages, RAW_TURNS_TO_KEEP)

(***************************************************************************)
(* The event handlers.  Every handler starts from the idle record and      *)
(* returns to it when on_message returns or raises.                        *)
(***************************************************************************)
\* loaded keeps the ledger as load_thread returned it to the handler; wrote
\* names the tables the handler has written since its event started; older
\* is the dialogue maybe_summarize_thread put into its summary prompt;
\* prompt is the user text of the call that asks for the reply.
NoPrompt == <<>>
IdleDM == [pc |-> "idle", user |-> NoUser, msgs |-> <<>>, summary |-> "",
           did_refresh |-> FALSE, loaded |-> <<>>, wrote |-> {}, older |-> <<>>,
           prompt |-> NoPrompt]

\* A prompt that also carries the ledger of a thread of the store.
build_dm_prompt_shared(phase, state_text, summary, messages, user_country) ==
    [who |-> IF user_country # "" THEN user_country ELSE "Unclaimed Power",
     summary |-> summary,
     convo |-> (IF DOMAIN threads = {} THEN <<>>
                ELSE threads[CHOOSE x \in DOMAIN threads : TRUE].messages)
               \o messages]

\* build_dm_prompt: the private parts of the text it returns, the power
\* negotiated with, the rolling summary and the recent messages.  The public
\* part, phase and state text, is the same in every user's prompt and is
\* not kept.
build_dm_prompt(phase, state_text, summary, messages, user_country) ==
    [who |-> IF user_country # "" THEN user_country ELSE "Unclaimed Power",
     summary |-> summary, convo |-> messages]

\* No summariser response is attached to the answer.  An answer of the orders
\* command carries the oracle output it was computed from: raw_sum, the
\* summariser's response, or raw, the text answered to the orders prompt.  The
\* answer that ends an outreach cycle carries the control record of the
\* cycle as its only element of cycle.
NoRaw == [json |-> FALSE, isobj |-> FALSE, obj |-> <<>>]

Answer(ev, u, out, info) ==
    [ev |-> ev, user |-> u, out |-> out, info |-> info, asked |-> "", raw_sum |-> NoRaw,
     raw |-> <<>>, count |-> 0, lines |-> <<>>, cycle |-> <<>>, head |-> ""]

\* A direct message is its first word and what follows it.  The answer to a
\* message that got past the gates keeps the first word in head.
DMInputs ==
    {[head |-> "claim", arg |-> a] : a \in ClaimArgs \cup {""}}
        \cup {[head |-> "dm", arg |-> ""]}

\* First words beyond those: other spellings, and words that only begin
\* like the command.
DMInputsWide ==
    DMInputs \cup {[head |-> "Claim", arg |-> "France"],
                   [head |-> "claims", arg |-> "France"],
                   [head |-> "claimed", arg |-> ""]}

\* dm_text.lower().startswith("claim")
StartsWithClaim(head) == head \in {"claim", "Claim", "claims", "claimed"}

\* The text of a negotiation message; the ones drawn are one word.
DMText(inp) == inp.head

\* A gate that lets every message through.
GateOpen == FALSE

\* The press-lock gate in front of the DM branch.
PressGate == press_locked

\* A rejection that still records the sender's message time.
RejectLockedCharging(u) ==
    /\ result' = Answer("dm", u, "locked", "")
    /\ cooldown' = [x \in DOMAIN cooldown \cup {u} |-> IF x = u THEN now ELSE cooldown[x]]
    /\ UNCHANGED <<players, threads, dm>>

\* The rejection of a message that meets the closed gate: the fixed notice.
RejectLocked(u) ==
    /\ result' = Answer("dm", u, "locked", "")
    /\ UNCHANGED <<players, threads, cooldown, dm>>

\* on_message, DM branch, up to its first suspension point.
DMReceive(s, u, name, inp) ==
    /\ nev < MaxEvents
    /\ UNCHANGED val
    /\ dm[s].pc = "idle"
    /\ nev' = nev + 1
    /\ UNCHANGED <<now, game, ai_memory, press_locked, ctl>>
    /\ IF PressGate
       THEN RejectLocked(u)
       ELSE IF ~CooldownAllows(u, now)
       THEN /\ result' = Answer("dm", u, "dropped", "")
            /\ UNCHANGED <<players, threads, cooldown, dm>>
       ELSE /\ cooldown' = check_and_update_cooldown(u, now)
            /\ IF StartsWithClaim(inp.head)
               THEN /\ UNCHANGED <<threads, dm>>
                    /\ IF inp.arg = ""
                       THEN /\ result' = [Answer("dm", u, "usage", "")
                                            EXCEPT !.head = inp.head]
                            /\ UNCHANGED players
                       ELSE LET r == claim_country(u, name, inp.arg)
                            IN  /\ players' = r.players
                                /\ result' = [Answer("claim", u, r.out, r.info)
                                                EXCEPT !.asked = Strip(inp.arg),
                                                       !.head = inp.head]
               ELSE /\ UNCHANGED players
                    /\ IF get_player_country(u) = ""
                       THEN /\ result' = [Answer("dm", u, "need_claim", "")
                                            EXCEPT !.head = inp.head]
                            /\ UNCHANGED <<threads, dm>>
                       ELSE LET thread == load_thread(u)
                                msgs == Append(thread.messages, UserMsg(DMText(inp)))
                            IN  /\ dm' = [dm EXCEPT ![s] =
                                     [pc |-> IF MustSummarize(msgs)
                                             THEN "await_summary" ELSE "await_reply",
                                      user |-> u, msgs |-> msgs,
                                      summary |-> thread.summary,
                                      did_refresh |-> FALSE,
                                      loaded |-> thread.messages,
                                      wrote |-> {"cooldown"},
                                      older |-> IF MustSummarize(msgs)
                                                THEN Older(msgs) ELSE <<>>,
                                      prompt |-> IF MustSummarize(msgs)
                                                 THEN NoPrompt
                                                 ELSE build_dm_prompt(
                                                        game.phase, game.state_text,
                                                        thread.summary, msgs,
                                                        get_player_country(u))]]
                                /\ result' = [Answer("dm", u, "accepted", "")
                                                EXCEPT !.head = inp.head]
                                /\ UNCHANGED threads

\* maybe_summarize_thread after its Completion Service call returned text.
DMSummarized(s, text) ==
    /\ dm[s].pc = "await_summary"
    /\ UNCHANGED val
    /\ dm' = [dm EXCEPT ![s].pc = "await_reply",
                        ![s].msgs = Newer(dm[s].msgs),
                        ![s].summary = Strip(text),
                        ![s].did_refresh = TRUE,
                        ![s].prompt = build_dm_prompt(
                                        game.phase, game.state_text, Strip(text),
                                        Newer(dm[s].msgs),
                                        get_player_country(dm[s].user))]
    /\ UNCHANGED <<now, nev, players, threads, cooldown, game, ai_memory,
                   press_locked, ctl, result>>

\* The reply of the Completion Service arrived: append it and save the thread.
\* The clock is read for summary_last_updated, then again inside save_thread.
DMReplied(s, reply) ==
    /\ dm[s].pc = "await_reply"
    /\ UNCHANGED val
    /\ \E t \in {now, now + 1} :
        /\ t <= MaxClock
        /\ now' = t
        /\ threads' = save_thread(dm[s].user,
                                  Append(dm[s].msgs, AssistantMsg(reply)),
                                  dm[s].summary,
                                  IF dm[s].did_refresh THEN now ELSE NoneTs,
                                  t)
    /\ dm' = [dm EXCEPT ![s] = IdleDM]
    /\ result' = Answer("reply", dm[s].user, "replied", reply)
    /\ UNCHANGED <<nev, players, cooldown, game, ai_memory, press_locked, ctl>>

\* call_openai raised (timeout, transport error): on_message ends there.
DMOracleFailed(s) ==
    /\ dm[s].pc \in {"await_summary", "await_reply"}
    /\ UNCHANGED val
    /\ dm' = [dm EXCEPT ![s] = IdleDM]
    /\ result' = Answer("error", dm[s].user, "raised", "")
    /\ UNCHANGED <<now, nev, players, threads, cooldown, game, ai_memory,
                   press_locked, ctl>>

\* Time passes.
Tick ==
    /\ now < MaxClock
    /\ UNCHANGED val
    /\ now' = now + 1
    /\ UNCHANGED <<nev, players, threads, cooldown, game, ai_memory, press_locked,
                   dm, ctl, result>>

(***************************************************************************)
(* The orders-only filter.  A text is a sequence of characters; a pattern  *)
(* is a sequence of elements, each a character class with a repetition.    *)
(***************************************************************************)
MaxLines == 2

IsSpace(c) == c \in {" ", "\t", "\n"}
IsAlpha(c) ==
    c \in {"A", "B", "C", "D", "F", "H", "I", "M", "P", "R", "S",
           "a", "c", "g", "i", "k", "m", "n", "o", "r", "t", "u", "w"}

\* The classes of ORDER_PATTERNS: PROV, UNIT, SPACE and the literals.
InClass(cls, c) ==
    CASE cls = "UNIT" -> c \in {"A", "F"}
      [] cls = "ALPHA" -> IsAlpha(c)
      [] cls = "SPACE" -> IsSpace(c)
      [] OTHER -> c = cls

UNIT == <<[cls |-> "UNIT", n |-> 1, plus |-> FALSE]>>
PROV == <<[cls |-> "ALPHA", n |-> 3, plus |-> FALSE]>>
SPACE == <<[cls |-> "SPACE", n |-> 1, plus |-> TRUE]>>
Lit(c) == <<[cls |-> c, n |-> 1, plus |-> FALSE]>>

ORDER_PATTERNS ==
    << UNIT \o SPACE \o PROV \o SPACE \o Lit("H"),
       UNIT \o SPACE \o PROV \o SPACE \o Lit("-") \o SPACE \o PROV,
       UNIT \o SPACE \o PROV \o SPACE \o Lit("S") \o SPACE \o UNIT \o SPACE
            \o PROV \o SPACE \o Lit("H"),
       UNIT \o SPACE \o PROV \o SPACE \o Lit("S") \o SPACE \o UNIT \o SPACE
            \o PROV \o SPACE \o Lit("-") \o SPACE \o PROV,
       UNIT \o SPACE \o PROV \o SPACE \o Lit("C") \o SPACE \o UNIT \o SPACE
            \o PROV \o SPACE \o Lit("-") \o SPACE \o PROV,
       UNIT \o SPACE \o PROV \o SPACE \o Lit("R") \o SPACE \o PROV,
       UNIT \o SPACE \o PROV \o SPACE \o Lit("D"),
       Lit("A") \o SPACE \o PROV \o SPACE \o Lit("B"),
       Lit("F") \o SPACE \o PROV \o SPACE \o Lit("B") >>

\* All of s[i .. i+n-1] exist and are in the class.
RunInClass(cls, s, i, n) ==
    /\ i + n - 1 <= Len(s)
    /\ \A j \in i .. (i + n - 1) : InClass(cls, s[j])

\* The elements k.. of the pattern match s from position i up to its end:
\* every pattern is anchored with ^ and $.
RECURSIVE MatchFrom(_, _, _, _)
MatchFrom(pat, k, s, i) ==
    IF k > Len(pat) THEN i = Len(s) + 1
    ELSE IF pat[k].plus
         THEN \E n \in 1 .. (Len(s) - i + 1) :
                 RunInClass(pat[k].cls, s, i, n) /\ MatchFrom(pat, k + 1, s, i + n)
         ELSE RunInClass(pat[k].cls, s, i, pat[k].n)
                 /\ MatchFrom(pat, k + 1, s, i + pat[k].n)

\* ORDER_RE.match(ln): the union of the patterns.
ORDER_RE(ln) == \E p \in 1 .. Len(ORDER_PATTERNS) : MatchFrom(ORDER_PATTERNS[p], 1, ln, 1)

\* str.strip() on a sequence of characters.
RECURSIVE LStripChars(_)
LStripChars(s) ==
    IF s # <<>> /\ IsSpace(Head(s)) THEN LStripChars(Tail(s)) ELSE s

RECURSIVE RStripChars(_)
RStripChars(s) ==
    IF s # <<>> /\ IsSpace(s[Len(s)]) THEN RStripChars(SubSeq(s, 1, Len(s) - 1)) ELSE s

StripChars(s) == RStripChars(LStripChars(s))

\* str.splitlines() on the line feed.
RECURSIVE splitlines(_)
splitlines(text) ==
    IF text = <<>> THEN <<>>
    ELSE LET brk == {i \in 1 .. Len(text) : text[i] = "\n"}
         IN  IF brk = {} THEN <<text>>
             ELSE LET i == CHOOSE x \in brk : \A y \in brk : x <= y
                  IN  <<SubSeq(text, 1, i - 1)>>
                          \o splitlines(SubSeq(text, i + 1, Len(text)))

RECURSIVE SelectLines(_, _)
SelectLines(lines, keep) ==
    IF lines = <<>> THEN <<>>
    ELSE (IF keep[1] THEN <<Head(lines)>> ELSE <<>>)
            \o SelectLines(Tail(lines), Tail(keep))

\* A pattern without its closing $: it matches a prefix of s.
RECURSIVE MatchPrefixFrom(_, _, _, _)
MatchPrefixFrom(pat, k, s, i) ==
    IF k > Len(pat) THEN TRUE
    ELSE IF pat[k].plus
         THEN \E n \in 1 .. (Len(s) - i + 1) :
                 RunInClass(pat[k].cls, s, i, n) /\ MatchPrefixFrom(pat, k + 1, s, i + n)
         ELSE RunInClass(pat[k].cls, s, i, pat[k].n)
                 /\ MatchPrefixFrom(pat, k + 1, s, i + pat[k].n)

KeepOrderLineUnanchored(ln) ==
    \E p \in 1 .. Len(ORDER_PATTERNS) : MatchPrefixFrom(ORDER_PATTERNS[p], 1, ln, 1)

\* The acceptance test of extract_valid_orders on one stripped line.
KeepOrderLine(ln) == ORDER_RE(ln)

extract_valid_orders(text) ==
    LET raw == splitlines(text)
        stripped == [i \in 1 .. Len(raw) |-> StripChars(raw[i])]
        lines == SelectLines(stripped, [i \in 1 .. Len(raw) |-> stripped[i] # <<>>])
    IN  SelectLines(lines, [i \in 1 .. Len(lines) |-> KeepOrderLine(lines[i])])

(***************************************************************************)
(* The texts the Completion Service may return for an orders prompt.       *)
(***************************************************************************)
Par == <<"P", "a", "r">>
Bur == <<"B", "u", "r">>
Mun == <<"M", "u", "n">>
Sp == <<" ">>
Nl == <<"\n">>

LineHold == <<"A">> \o Sp \o Par \o Sp \o <<"H">>
LineMove == <<"A">> \o Sp \o Par \o Sp \o <<"-">> \o Sp \o Bur
LineProse == <<"I", " ", "a", "m", " ", "a", "t", "t", "a", "c", "k", "i", "n", "g">>

OracleTexts ==
    { <<>>,
      LineProse,
      LineProse \o Nl \o Sp \o LineMove \o Sp \o Nl,
      LineHold \o Nl \o LineMove }

(***************************************************************************)
(* The batched summary refresh of the orders command.                      *)
(***************************************************************************)
\* A JSON value of the response: a string, or something else (5, null, []).
JsonValues ==
    {[isstr |-> TRUE, text |-> "sA"], [isstr |-> TRUE, text |-> "sB"],
     [isstr |-> FALSE, text |-> ""]}

\* The responses to a prompt that asked for the keys in expected: not JSON,
\* JSON but no object, or an object over some of the keys and maybe another.
BatchResponses(expected) ==
    {[json |-> FALSE, isobj |-> FALSE, obj |-> <<>>],
     [json |-> TRUE, isobj |-> FALSE, obj |-> <<>>]}
        \cup {[json |-> TRUE, isobj |-> TRUE, obj |-> f] :
                f \in UNION {[K -> JsonValues] : K \in SUBSET (expected \cup {"Extra"})}}

\* A parse that reads the expected keys and ignores any other.
parse_batch_summary_lenient(resp, expected_keys) ==
    IF ~resp.json THEN [ok |-> FALSE, out |-> <<>>]
    ELSE IF ~resp.isobj THEN [ok |-> FALSE, out |-> <<>>]
    ELSE IF ~(expected_keys \subseteq DOMAIN resp.obj) THEN [ok |-> FALSE, out |-> <<>>]
    ELSE IF \E k \in expected_keys : ~resp.obj[k].isstr THEN [ok |-> FALSE, out |-> <<>>]
    ELSE [ok |-> TRUE, out |-> [k \in expected_keys |-> Strip(resp.obj[k].text)]]

\* parse_batch_summary: None, or the stripped summary of every expected key.
parse_batch_summary(resp, expected_keys) ==
    IF ~resp.json THEN [ok |-> FALSE, out |-> <<>>]
    ELSE IF ~resp.isobj THEN [ok |-> FALSE, out |-> <<>>]
    ELSE IF DOMAIN resp.obj # expected_keys THEN [ok |-> FALSE, out |-> <<>>]
    ELSE IF \E k \in expected_keys : ~resp.obj[k].isstr THEN [ok |-> FALSE, out |-> <<>>]
    ELSE [ok |-> TRUE, out |-> [k \in expected_keys |-> Strip(resp.obj[k].text)]]

\* The loop over summaries.items() calling update_thread_summary_and_truncate.
RECURSIVE ApplySummaries(_, _, _, _, _)
ApplySummaries(th, keys, summaries, country_to_uid, t) ==
    IF keys = {} THEN th
    ELSE LET k == CHOOSE x \in keys : TRUE
         IN  ApplySummaries(
                 update_thread_summary_and_truncate(th, country_to_uid[k],
                                                    summaries[k], KEEP_LAST_N_MSGS, t),
                 keys \ {k}, summaries, country_to_uid, t)

\* sum_calls and gen_calls count the Completion Service calls the running
\* orders command issued for summaries and for orders.
\* recent keeps, by country, the messages whose lines the orders command put
\* into the payload of the batched refresh.
\* During an outreach cycle the record also keeps what the cycle was asked
\* and what it did: requested, the N of the command; raw_out, the oracle's
\* response; log, the deliveries made, in order; failed, the countries a
\* delivery to which raised.  wrote names the tables and flags the command
\* has written since its event started.
NoOut == [json |-> FALSE, isarr |-> FALSE, items |-> <<>>]
IdleCtl == [pc |-> "idle", country_to_uid |-> <<>>, sum_calls |-> 0, gen_calls |-> 0,
            max_messages |-> 0, proposals |-> <<>>, used |-> {}, sent |-> 0,
            requested |-> 0, raw_out |-> NoOut, log |-> <<>>, failed |-> {},
            wrote |-> {}, recent |-> <<>>]

\* The messages of a ledger that build_batch_summary_payload renders into
\* "recent": the last RAW_TURNS_TO_KEEP that have a role and a content.
RECURSIVE RenderedOf(_)
RenderedOf(messages) ==
    IF messages = <<>> THEN <<>>
    ELSE (IF Head(messages).role # "" /\ Strip(Head(messages).content) # ""
          THEN <<Head(messages)>> ELSE <<>>) \o RenderedOf(Tail(messages))

payload_recent(messages) == RenderedOf(LastN(messages, RAW_TURNS_TO_KEEP))

\* A precondition that asks for the phase only.
HasPhase == game.phase # ""

\* The precondition of the orders command on the game_state row.
HasPhaseAndState == game.phase # "" /\ StripChars(game.state_text) # <<>>

\* An orders command that asks for one summary per stale thread.
OrdersReceivePerThread ==
    /\ nev < MaxEvents
    /\ UNCHANGED val
    /\ ctl.pc = "idle"
    /\ nev' = nev + 1
    /\ UNCHANGED <<now, players, threads, cooldown, game, ai_memory, press_locked,
                   dm>>
    /\ IF ~HasPhaseAndState
       THEN /\ result' = Answer("orders", NoUser, "need_phase_and_state", "")
            /\ UNCHANGED ctl
       ELSE LET rows == get_threads_needing_summary_refresh
            IN  /\ result' = Answer("orders", NoUser, "started", "")
                /\ IF rows # {}
                   THEN ctl' = [IdleCtl EXCEPT
                                  !.pc = "await_batch", !.sum_calls = Cardinality(rows),
                                  !.country_to_uid =
                                      [c \in {players[u].country : u \in rows} |->
                                          CHOOSE u \in rows : players[u].country = c]]
                   ELSE ctl' = [IdleCtl EXCEPT !.pc = "await_orders", !.gen_calls = 1]

\* The orders command up to its first suspension point.
OrdersReceive ==
    /\ nev < MaxEvents
    /\ UNCHANGED val
    /\ ctl.pc = "idle"
    /\ nev' = nev + 1
    /\ UNCHANGED <<now, players, threads, cooldown, game, ai_memory, press_locked,
                   dm>>
    /\ IF ~HasPhaseAndState
       THEN /\ result' = Answer("orders", NoUser, "need_phase_and_state", "")
            /\ UNCHANGED ctl
       ELSE LET rows == get_threads_needing_summary_refresh
            IN  /\ result' = Answer("orders", NoUser, "started", "")
                /\ IF rows # {}
                   THEN ctl' = [IdleCtl EXCEPT
                                  !.pc = "await_batch", !.sum_calls = 1,
                                  !.country_to_uid =
                                      [c \in {players[u].country : u \in rows} |->
                                          CHOOSE u \in rows : players[u].country = c],
                                  !.recent =
                                      [c \in {players[u].country : u \in rows} |->
                                          payload_recent(threads[
                                              CHOOSE u \in rows :
                                                  players[u].country = c].messages)]]
                   ELSE ctl' = [IdleCtl EXCEPT !.pc = "await_orders", !.gen_calls = 1]

\* The summariser answered: parse, then apply all or nothing.
OrdersBatchReturned(resp) ==
    /\ ctl.pc = "await_batch"
    /\ UNCHANGED val
    /\ resp \in BatchResponses(DOMAIN ctl.country_to_uid)
    /\ LET summaries == parse_batch_summary(resp, DOMAIN ctl.country_to_uid)
       IN  IF summaries.ok
           THEN /\ threads' = ApplySummaries(threads, DOMAIN summaries.out,
                                             summaries.out, ctl.country_to_uid, now)
                /\ ctl' = [IdleCtl EXCEPT !.pc = "await_orders", !.sum_calls = 1,
                                           !.gen_calls = 1, !.wrote = {"threads"}]
                /\ result' = [Answer("orders", NoUser, "summaries_applied", "")
                                 EXCEPT !.raw_sum = resp]
           ELSE /\ ctl' = IdleCtl
                /\ result' = [Answer("orders", NoUser, "summary_parse_failed", "")
                                 EXCEPT !.raw_sum = resp]
                /\ UNCHANGED threads
    /\ UNCHANGED <<now, nev, players, cooldown, game, ai_memory, press_locked, dm>>

\* A lock that outreach leaves as it is.
KeepPressState == UNCHANGED press_locked

\* The press lock closes (after orders) and opens (after outreach).
LockPress == press_locked' = TRUE
UnlockPress == press_locked' = FALSE

\* What the orders command does once it holds at least one valid order line:
\* post the lines, close the press lock, ask for the refreshed journal.
OrdersProduced(orders, raw) ==
    /\ LockPress
    /\ result' = [Answer("orders", NoUser, "orders_posted", "")
                     EXCEPT !.lines = orders, !.raw = raw]
    /\ ctl' = [ctl EXCEPT !.pc = "await_journal",
                           !.wrote = ctl.wrote \cup {"press_lock"}]

\* A first answer after which nothing is retried.
OrdersGeneratedNoRetry(raw) ==
    /\ ctl.pc = "await_orders"
    /\ UNCHANGED val
    /\ LET orders == extract_valid_orders(raw)
       IN  IF orders = <<>>
           THEN /\ ctl' = IdleCtl
                /\ result' = [Answer("orders", NoUser, "no_valid_orders", "")
                                 EXCEPT !.raw = raw]
                /\ UNCHANGED press_locked
           ELSE OrdersProduced(orders, raw)
    /\ UNCHANGED <<now, nev, players, threads, cooldown, game, ai_memory, dm>>

\* The first answer to the orders prompt.
OrdersGenerated(raw) ==
    /\ ctl.pc = "await_orders"
    /\ UNCHANGED val
    /\ LET orders == extract_valid_orders(raw)
       IN  IF orders = <<>>
           THEN /\ ctl' = [ctl EXCEPT !.pc = "await_retry",
                                      !.gen_calls = ctl.gen_calls + 1]
                /\ result' = [Answer("orders", NoUser, "retrying", "") EXCEPT !.raw = raw]
                /\ UNCHANGED press_locked
           ELSE OrdersProduced(orders, raw)
    /\ UNCHANGED <<now, nev, players, threads, cooldown, game, ai_memory, dm>>

\* A retry that goes on to post whatever the filter left, even nothing.
OrdersRetriedLenient(raw2) ==
    /\ ctl.pc = "await_retry"
    /\ UNCHANGED val
    /\ OrdersProduced(extract_valid_orders(raw2), raw2)
    /\ UNCHANGED <<now, nev, players, threads, cooldown, game, ai_memory, dm>>

\* The answer to the stricter prompt.
OrdersRetried(raw2) ==
    /\ ctl.pc = "await_retry"
    /\ UNCHANGED val
    /\ LET orders == extract_valid_orders(raw2)
       IN  IF orders = <<>>
           THEN /\ ctl' = IdleCtl
                /\ result' = [Answer("orders", NoUser, "no_valid_orders", "")
                                 EXCEPT !.raw = raw2]
                /\ UNCHANGED press_locked
           ELSE OrdersProduced(orders, raw2)
    /\ UNCHANGED <<now, nev, players, threads, cooldown, game, ai_memory, dm>>

Journals == {"j1"}

\* A journal that grows: the new text is put after the old one.
JournalAfter(old, text) == IF old = "" THEN text ELSE "j1 j1"

OrdersJournalAppended(text) ==
    /\ ctl.pc = "await_journal"
    /\ UNCHANGED val
    /\ ai_memory' = JournalAfter(ai_memory, text)
    /\ ctl' = IdleCtl
    /\ UNCHANGED <<now, nev, players, threads, cooldown, game, press_locked, dm,
                   result>>

\* The journal written after orders: the row is replaced.
OrdersJournalReturned(text) ==
    /\ ctl.pc = "await_journal"
    /\ UNCHANGED val
    /\ ai_memory' = text
    /\ ctl' = IdleCtl
    /\ UNCHANGED <<now, nev, players, threads, cooldown, game, press_locked, dm,
                   result>>

(***************************************************************************)
(* Outreach.                                                               *)
(***************************************************************************)
OUTREACH_MAX_DEFAULT == 3
OUTREACH_MAX_CAP == 6
DISCORD_MESSAGE_LIMIT == 2000
MaxProposals == 1

\* The lengths of the message texts the model draws.
TextLen(msg) == CASE msg = "" -> 0 [] msg = "long" -> 2001 [] OTHER -> 1

\* msg[:2000 - 1] + "…"
Truncated(msg) == IF msg = "long" THEN "long_cut" ELSE msg

JStr(text) == [isstr |-> TRUE, text |-> text]
JOther == [isstr |-> FALSE, text |-> ""]

\* The items of a JSON array the oracle may answer with.
ProposalItems ==
    {[isobj |-> TRUE, to |-> JStr(c), message |-> JStr("o")] :
        c \in {" England ", "France", "Austria"}}
      \cup {[isobj |-> TRUE, to |-> JStr("France"), message |-> JStr("")],
            [isobj |-> TRUE, to |-> JStr("England"), message |-> JStr("long")],
            [isobj |-> TRUE, to |-> JOther, message |-> JStr("o")],
            [isobj |-> TRUE, to |-> JStr("England"), message |-> JOther],
            [isobj |-> FALSE, to |-> JOther, message |-> JOther]}

\* The responses of the oracle: not JSON, JSON but no array, or an array of
\* up to k items.
OutreachResponsesUpTo(k) ==
    {[json |-> FALSE, isarr |-> FALSE, items |-> <<>>],
     [json |-> TRUE, isarr |-> FALSE, items |-> <<>>]}
        \cup {[json |-> TRUE, isarr |-> TRUE, items |-> its] :
                its \in UNION {[1 .. n -> ProposalItems] : n \in 0 .. k}}

OutreachResponses == OutreachResponsesUpTo(MaxProposals)

RECURSIVE KeepProposals(_)
KeepProposals(items) ==
    IF items = <<>> THEN <<>>
    ELSE LET item == Head(items)
         IN  (IF item.isobj /\ item.to.isstr /\ item.message.isstr
              THEN <<[to |-> Strip(item.to.text), message |-> Strip(item.message.text)]>>
              ELSE <<>>) \o KeepProposals(Tail(items))

\* A parser that gives up on the whole array when one item is malformed.
parse_outreach_strict(resp) ==
    IF ~resp.json THEN <<>>
    ELSE IF ~resp.isarr THEN <<>>
    ELSE IF \E i \in 1 .. Len(resp.items) :
               ~(resp.items[i].isobj /\ resp.items[i].to.isstr
                   /\ resp.items[i].message.isstr)
         THEN <<>>
         ELSE KeepProposals(resp.items)

parse_outreach(resp) ==
    IF ~resp.json THEN <<>>
    ELSE IF ~resp.isarr THEN <<>>
    ELSE KeepProposals(resp.items)

\* country_to_uid of send_outreach: the claims without the AI's own country.
OutreachRecipients ==
    LET cs == {cu[1] : cu \in get_claims} \ {AI_COUNTRY}
    IN  [c \in cs |-> CHOOSE u \in DOMAIN players : players[u].country = c]

\* A test that forgets who was written to already.
SkipProposalNoUsed(p, country_to_uid, used) ==
    \/ p.to \notin DOMAIN country_to_uid
    \/ p.message = ""

\* The test of the proposal loop that skips a proposal without sending.
SkipProposal(p, country_to_uid, used) ==
    \/ p.to \notin DOMAIN country_to_uid
    \/ p.to \in used
    \/ p.message = ""

\* The proposals left when the loop reaches its next delivery attempt: the
\* first of them is the one it tries to deliver.  Empty when the loop runs
\* out of proposals or the budget is spent.
RECURSIVE NextAttempt(_, _, _, _, _)
NextAttempt(proposals, country_to_uid, used, nsent, max_messages) ==
    IF proposals = <<>> \/ nsent >= max_messages THEN <<>>
    ELSE IF SkipProposal(Head(proposals), country_to_uid, used)
         THEN NextAttempt(Tail(proposals), country_to_uid, used, nsent, max_messages)
         ELSE proposals

\* The budget the outreach command passes for a requested N (NoBudget: none given).
NoBudget == -100

\* A command that passes the requested N on as it is.
PassBudget(n) == IF n = NoBudget THEN OUTREACH_MAX_DEFAULT ELSE n
ClampBudget(n) ==
    IF n = NoBudget THEN OUTREACH_MAX_DEFAULT
    ELSE IF n < 0 THEN 0
    ELSE IF n > OUTREACH_MAX_CAP THEN OUTREACH_MAX_CAP ELSE n

\* The outreach command completed, c being the control record of the cycle:
\* open the lock.  The answer records whether the lock was closed until then.
OutreachCompleted(c) ==
    /\ UnlockPress
    /\ ctl' = IdleCtl
    /\ result' = [Answer("outreach", NoUser, "outreach_done",
                            IF press_locked THEN "reopened" ELSE "")
                     EXCEPT !.count = c.sent, !.cycle = <<c>>]

\* The outreach command up to its first suspension point: the journal refresh.
OutreachReceive(n) ==
    /\ nev < MaxEvents
    /\ UNCHANGED val
    /\ ctl.pc = "idle"
    /\ nev' = nev + 1
    /\ UNCHANGED <<now, players, threads, cooldown, game, ai_memory, press_locked,
                   dm>>
    /\ IF ~HasPhaseAndState
       THEN /\ result' = Answer("outreach", NoUser, "need_phase_and_state", "")
            /\ UNCHANGED ctl
       ELSE /\ result' = Answer("outreach", NoUser, "started", "")
            /\ ctl' = [IdleCtl EXCEPT !.pc = "await_adjudication",
                                      !.requested = n,
                                      !.max_messages = ClampBudget(n)]

\* The journal after adjudication is written; send_outreach starts.
OutreachJournalReturned(text) ==
    /\ ctl.pc = "await_adjudication"
    /\ UNCHANGED val
    /\ ai_memory' = text
    /\ IF DOMAIN OutreachRecipients = {}
       THEN OutreachCompleted([ctl EXCEPT !.country_to_uid = OutreachRecipients,
                                          !.wrote = {"ai_memory"}])
       ELSE /\ ctl' = [ctl EXCEPT !.pc = "await_proposals",
                                  !.country_to_uid = OutreachRecipients,
                                  !.wrote = {"ai_memory"}]
            /\ UNCHANGED <<press_locked, result>>
    /\ UNCHANGED <<now, nev, players, threads, cooldown, game, dm>>

\* The loop of send_outreach from the control record c, over the proposals
\* left in it, up to its next suspension point.
OutreachLoop(c) ==
    LET left == NextAttempt(c.proposals, c.country_to_uid, c.used, c.sent,
                            c.max_messages)
    IN  IF left = <<>>
        THEN OutreachCompleted(c)
        ELSE /\ ctl' = [c EXCEPT !.pc = "sending", !.proposals = left]
             /\ UNCHANGED <<press_locked, result>>

\* The oracle answered the outreach prompt.
OutreachProposed(resp) ==
    /\ ctl.pc = "await_proposals"
    /\ UNCHANGED val
    /\ OutreachLoop([ctl EXCEPT !.raw_out = resp, !.proposals = parse_outreach(resp),
                                !.used = {}, !.sent = 0])
    /\ UNCHANGED <<now, nev, players, threads, cooldown, game, ai_memory, dm>>

\* fetch_user and send succeeded: count it and append it to the thread.
OutreachDelivered ==
    /\ ctl.pc = "sending"
    /\ UNCHANGED val
    /\ LET p == Head(ctl.proposals)
           uid == ctl.country_to_uid[p.to]
           msg == IF TextLen(p.message) > DISCORD_MESSAGE_LIMIT
                  THEN Truncated(p.message) ELSE p.message
           thread == load_thread(uid)
       IN  /\ threads' = save_thread(uid, Append(thread.messages, AssistantMsg(msg)),
                                     thread.summary, NoneTs, now)
           /\ ctl' = [ctl EXCEPT !.pc = "sleeping", !.used = ctl.used \cup {p.to},
                                 !.sent = ctl.sent + 1,
                                 !.proposals = Tail(ctl.proposals),
                                 !.log = Append(ctl.log, [to |-> p.to, msg |-> msg]),
                                 !.wrote = ctl.wrote \cup {"threads"}]
    /\ UNCHANGED <<now, nev, players, cooldown, game, ai_memory, press_locked, dm,
                   result>>

\* asyncio.sleep returned: the loop goes on.
OutreachSlept ==
    /\ ctl.pc = "sleeping"
    /\ UNCHANGED val
    /\ OutreachLoop(ctl)
    /\ UNCHANGED <<now, nev, players, threads, cooldown, game, ai_memory, dm>>

\* fetch_user or send raised: the loop goes on with the next proposal.
OutreachDeliveryFailed ==
    /\ ctl.pc = "sending"
    /\ UNCHANGED val
    /\ OutreachLoop([ctl EXCEPT !.proposals = Tail(ctl.proposals),
                                !.failed = ctl.failed \cup {Head(ctl.proposals).to}])
    /\ UNCHANGED <<now, nev, players, threads, cooldown, game, ai_memory, dm>>

\* call_openai raised in a control-channel command: on_message ends there.
CtlOracleFailed ==
    /\ UNCHANGED val
    /\ ctl.pc \in {"await_batch", "await_orders", "await_retry", "await_journal",
                   "await_adjudication", "await_proposals"}
    /\ ctl' = IdleCtl
    /\ result' = Answer("error", NoUser, "raised", "")
    /\ UNCHANGED <<now, nev, players, threads, cooldown, game, ai_memory,
                   press_locked, dm>>

(***************************************************************************)
(* The other control-channel commands.                                     *)
(***************************************************************************)
\* The text of a control-channel message is a sequence of words and white
\* space.  A word ending in a colon is a command prefix as it was typed.
\* The phase and state messages the operator sends in the full system:
PhaseContents == {<<"phase:">>, <<"Phase:", " ", "S1901", " ">>}

StateContents ==
    {<<"state:", " ">>, <<"state:", " ", "board">>, <<"State:", "\n", "board">>}

\* str.lower() on a word.
LowerWord(w) ==
    CASE w \in {"State:", "STATE:"} -> "state:"
      [] w \in {"Phase:", "PHASE:"} -> "phase:"
      [] w = "Status" -> "status"
      [] OTHER -> w

\* content.lower().startswith(prefix)
StartsWithLower(content, prefix) ==
    content # <<>> /\ LowerWord(content[1]) = prefix

\* The argument None of set_game_state, for either column.
NoneText == <<"None">>

\* A set_game_state that writes both columns from its arguments.
set_game_state_blind(phase, state_text) ==
    [phase |-> IF phase # "None" THEN phase ELSE "",
     state_text |-> IF state_text # NoneText THEN state_text ELSE <<>>]

\* set_game_state: the row it leaves.
set_game_state(phase, state_text) ==
    [phase |-> IF phase # "None" THEN phase ELSE game.phase,
     state_text |-> IF state_text # NoneText THEN state_text ELSE game.state_text]

\* The text the state command extracts from a content that starts with its
\* prefix: what follows the first colon, or, when the content has a line
\* feed, what follows the first "state:" as typed in lower case; lstripped.
\* split(...)[1] raises IndexError when the separator does not occur.
state_text_of(content) ==
    LET at == {i \in 1 .. Len(content) : content[i] = "state:"}
        first == CHOOSE i \in at : \A j \in at : i <= j
    IN  IF \E i \in 1 .. Len(content) : content[i] = "\n"
        THEN IF at = {}
             THEN [raised |-> TRUE, text |-> <<>>]
             ELSE [raised |-> FALSE,
                   text |-> LStripChars(SubSeq(content, first + 1, Len(content)))]
        ELSE [raised |-> FALSE, text |-> LStripChars(Tail(content))]

\* The phase the phase command extracts: what follows the first colon,
\* stripped.  The phases drawn are one word or nothing.
phase_text_of(content) ==
    LET ph == StripChars(Tail(content))
    IN  IF ph = <<>> THEN "" ELSE ph[1]

\* phase: <text>
PhaseCommand(content) ==
    /\ StartsWithLower(content, "phase:")
    /\ game' = set_game_state(phase_text_of(content), NoneText)
    /\ UNCHANGED val
    /\ UNCHANGED <<now, nev, result, players, threads, cooldown, ai_memory, press_locked, dm,
                   ctl>>

\* state: <text>.  When the extraction raises, on_message ends there.
StateCommand(content) ==
    /\ StartsWithLower(content, "state:")
    /\ LET st == state_text_of(content)
       IN  game' = IF st.raised THEN game ELSE set_game_state("None", st.text)
    /\ UNCHANGED val
    /\ UNCHANGED <<now, nev, result, players, threads, cooldown, ai_memory, press_locked, dm,
                   ctl>>

\* status
StatusCommand ==
    /\ UNCHANGED val
    /\ UNCHANGED <<now, nev, result, players, threads, cooldown, game, ai_memory, press_locked,
                   dm, ctl>>

(***************************************************************************)
(* The system.                                                             *)
(***************************************************************************)
IdleVal == [pc |-> "off", lines |-> <<>>, text |-> <<>>, out |-> <<>>]

SysInit ==
    /\ now = 1
    /\ nev = 0
    /\ players = <<>>
    /\ threads = <<>>
    /\ cooldown = <<>>
    /\ game = [phase |-> "", state_text |-> <<>>]
    /\ ai_memory = ""
    /\ press_locked = FALSE
    /\ dm = [s \in Slots |-> IdleDM]
    /\ ctl = IdleCtl
    /\ result = Answer("none", NoUser, "", "")

Init == SysInit /\ val = IdleVal

DMNextOver(inputs) ==
    \/ \E s \in Slots, u \in Users, name \in Names, inp \in inputs :
          /\ \A s2 \in Slots : dm[s2].pc = "idle" => s <= s2
          /\ DMReceive(s, u, name, inp)
    \/ \E s \in Slots, text \in Summaries : DMSummarized(s, text)
    \/ \E s \in Slots : DMReplied(s, "re")
    \/ \E s \in Slots : DMOracleFailed(s)

DMNext == DMNextOver(DMInputs)

OrdersNext ==
    \/ OrdersReceive
    \/ \E resp \in BatchResponses(DOMAIN ctl.country_to_uid) : OrdersBatchReturned(resp)
    \/ \E raw \in OracleTexts : OrdersGenerated(raw)
    \/ \E raw \in OracleTexts : OrdersRetried(raw)
    \/ \E text \in Journals : OrdersJournalReturned(text)

\* The N of the outreach commands the operator sends.
OutreachBudgets == {NoBudget, -1, 7}

OutreachNext ==
    \/ \E n \in OutreachBudgets : OutreachReceive(n)
    \/ \E text \in Journals : OutreachJournalReturned(text)
    \/ \E resp \in OutreachResponses : OutreachProposed(resp)
    \/ OutreachDelivered
    \/ OutreachSlept
    \/ OutreachDeliveryFailed

Next ==
    \/ DMNext
    \/ OrdersNext
    \/ OutreachNext
    \/ CtlOracleFailed
    \/ \E content \in PhaseContents : PhaseCommand(content)
    \/ \E content \in StateContents : StateCommand(content)
    \/ StatusCommand
    \/ Tick

Spec == Init /\ [][Next]_vars

(***************************************************************************)
(* One outreach cycle on a store that already holds claims, with longer    *)
(* lists of proposals and more budgets than the operator sends above.      *)
(***************************************************************************)
MaxCycleProposals == 3

OutreachBudgetsWide == {NoBudget, -1, 0, 1, 2, 7}

Claimed(c1, c2) ==
    [u \in Users |-> [display_name |-> "n1", country |-> IF u = "u1" THEN c1 ELSE c2]]

OutreachInit ==
    /\ now = 1
    /\ nev = MaxEvents - 1
    /\ players \in {Claimed("England", "France"), Claimed("England", "Austria"),
                     [u \in {"u1"} |-> Claimed("England", "France")[u]],
                     [u \in {"u1"} |-> Claimed("Austria", "France")[u]]}
    /\ threads \in {<<>>,
                     [u \in {"u1"} |->
                         [messages |-> <<UserMsg("dm"), AssistantMsg("re")>>,
                          summary |-> "", last_updated |-> 1,
                          summary_last_updated |-> 1]]}
    /\ cooldown = [u \in DOMAIN players |-> 1]
    /\ game = [phase |-> "S1901", state_text |-> <<"board">>]
    /\ ai_memory = "j1"
    /\ press_locked = TRUE
    /\ dm = [s \in Slots |-> IdleDM]
    /\ ctl = IdleCtl
    /\ result = Answer("none", NoUser, "", "")
    /\ val = IdleVal

OutreachNextWide ==
    \/ \E n \in OutreachBudgetsWide : OutreachReceive(n)
    \/ \E text \in Journals : OutreachJournalReturned(text)
    \/ \E resp \in OutreachResponsesUpTo(MaxCycleProposals) : OutreachProposed(resp)
    \/ OutreachDelivered
    \/ OutreachSlept
    \/ OutreachDeliveryFailed
    \/ CtlOracleFailed

SpecOutreach == OutreachInit /\ [][OutreachNextWide]_vars

(***************************************************************************)
(* Direct messages of players who have claimed, with up to NumSlots of     *)
(* them being handled at a time.                                           *)
(***************************************************************************)
DMInit ==
    /\ now = 1
    /\ nev = MaxEvents - 3
    /\ players \in {Claimed("England", "France"),
                    [u \in {"u1"} |-> [display_name |-> "n1", country |-> "England"]]}
    /\ threads \in {<<>>,
                     [u \in {"u1"} |->
                         [messages |-> <<UserMsg("dm"), AssistantMsg("re")>>,
                          summary |-> "", last_updated |-> 1,
                          summary_last_updated |-> 1]],
                     [u \in {"u1"} |->
                         [messages |-> <<AssistantMsg("re")>>,
                          summary |-> "", last_updated |-> 1,
                          summary_last_updated |-> 1]]}
    /\ cooldown = <<>>
    /\ game = [phase |-> "S1901", state_text |-> <<"board">>]
    /\ ai_memory = ""
    /\ press_locked = FALSE
    /\ dm = [s \in Slots |-> IdleDM]
    /\ ctl = IdleCtl
    /\ result = Answer("none", NoUser, "", "")
    /\ val = IdleVal

DMNextTimed == DMNextOver(DMInputsWide) \/ Tick

SpecDM == DMInit /\ [][DMNextTimed]_vars

(***************************************************************************)
(* The cooldown gate on its own: direct messages of the users arriving at  *)
(* non-decreasing times under a configured window, each kept in a log with *)
(* what the gate answered.                                                 *)
(***************************************************************************)
MaxGateClock == 4
MaxGateEvents == 4
Windows == {1, 2, 3}

GateInit ==
    /\ SysInit
    /\ val \in {[pc |-> "gate", window |-> w, log |-> <<>>] : w \in Windows}

\* A direct message of u reaches the gate at time now.
GateDM(u) ==
    /\ val.pc = "gate"
    /\ Len(val.log) < MaxGateEvents
    /\ cooldown' = check_and_update_cooldown_within(val.window, u, now)
    /\ val' = [val EXCEPT !.log =
                 Append(val.log, [user |-> u, at |-> now,
                                  allowed |-> CooldownAllowsWithin(val.window, u, now)])]
    /\ UNCHANGED <<now, nev, players, threads, game, ai_memory, press_locked, dm,
                   ctl, result>>

\* Time passes at the gate.
GateTick ==
    /\ val.pc = "gate"
    /\ now < MaxGateClock
    /\ now' = now + 1
    /\ UNCHANGED <<nev, players, threads, cooldown, game, ai_memory, press_locked,
                   dm, ctl, result, val>>

GateNext == (\E u \in Users : GateDM(u)) \/ GateTick

SpecGate == GateInit /\ [][GateNext]_vars

(***************************************************************************)
(* The payload of the batched refresh on its own.  A message content is    *)
(* kept by its length: len characters between its outer white space, pad   *)
(* telling whether it has any.  A payload line is the upper-cased role,    *)
(* the number of leading characters of the stripped content it carries     *)
(* and whether " [truncated]" follows them.                                *)
(***************************************************************************)
MAX_CHARS_PER_MSG_DEFAULT == 1200
LongContent == 1200

Upper(role) ==
    CASE role = "user" -> "USER" [] role = "assistant" -> "ASSISTANT" [] OTHER -> role

\* One pass of the inner loop: the line of message m, or none.
payload_lines_of(m, cap) ==
    LET role == Upper(m.role)
        stripped == m.len
        cut == stripped > LongContent
        chars == IF cut THEN (IF stripped < cap THEN stripped ELSE cap) ELSE stripped
    IN  IF role # "" /\ (chars > 0 \/ cut)
        THEN <<[role |-> role, chars |-> chars, marker |-> cut]>>
        ELSE <<>>

RECURSIVE recent_lines(_, _)
recent_lines(messages, cap) ==
    IF messages = <<>> THEN <<>>
    ELSE payload_lines_of(Head(messages), cap) \o recent_lines(Tail(messages), cap)

\* build_batch_summary_payload with MAX_CHARS_PER_MSG configured as cap.
build_batch_summary_payload(rows, cap) ==
    [c \in DOMAIN rows |->
        [summary |-> Strip(rows[c].summary),
         recent |-> recent_lines(LastN(rows[c].messages, RAW_TURNS_TO_KEEP), cap)]]

Caps == {500, MAX_CHARS_PER_MSG_DEFAULT, 2000}
ContentLens == {0, 500, 501, 1200, 1201, 2000, 2001}
PayloadMessages ==
    [role : {"user", "assistant", ""}, len : ContentLens, pad : BOOLEAN]
PayloadLedgers ==
    [1 .. 1 -> PayloadMessages] \cup [1 .. 2 -> PayloadMessages]
        \cup {<<[role |-> "user", len |-> 2001, pad |-> FALSE]>> \o l :
                l \in [1 .. 2 -> PayloadMessages]}
PayloadRows ==
    {[c \in {"England"} |-> [summary |-> s, messages |-> l]] :
        s \in {"sA", " "}, l \in PayloadLedgers}
    \cup {[c \in {"England", "France"} |->
             IF c = "England" THEN [summary |-> "sA", messages |-> l]
             ELSE [summary |-> "",
                   messages |-> <<[role |-> "user", len |-> 1201, pad |-> FALSE]>>]] :
            l \in [1 .. 1 -> PayloadMessages]}

PayloadInit ==
    /\ SysInit
    /\ val \in {[pc |-> "rows", cap |-> cap, rows |-> rows, payload |-> <<>>] :
                  cap \in Caps, rows \in PayloadRows}

\* build_batch_summary_payload applied to the rows.
PayloadBuild ==
    /\ val.pc = "rows"
    /\ val' = [val EXCEPT !.pc = "built",
                          !.payload = build_batch_summary_payload(val.rows, val.cap)]
    /\ UNCHANGED <<now, nev, players, threads, cooldown, game, ai_memory,
                   press_locked, dm, ctl, result>>

PayloadNext == PayloadBuild

SpecPayload == PayloadInit /\ [][PayloadNext]_vars

(***************************************************************************)
(* One message in a server channel, kept with what on_message did with     *)
(* it, among one event of every other kind, on a store that already holds  *)
(* claims and a thread.                                                    *)
(***************************************************************************)
ControlContents ==
    PhaseContents \cup StateContents
      \cup {<<"PHASE:", "S1901">>, <<"phase:", " ", "S1901">>,
            <<"state:">>, <<"state:", "\n", "board">>,
            <<"STATE:", " ", "board">>,
            <<"State:", " ", "board">>,
            <<"state:", " ", "board", "\n", "more">>,
            <<"STATE:", " ", "board", "\n", "more">>,
            <<"State:", " ", "more", "\n", "state:", " ", "board">>,
            <<"status">>, <<" ", "Status", "\n">>,
            <<"hello">>, <<" ", "state:", " ", "board">>, <<"board", "phase:", "S1901">>}

ServerMessages ==
    {[channel |-> "control", content |-> c] : c \in ControlContents}
      \cup {[channel |-> "other", content |-> c] :
              c \in {<<"phase:", " ", "F1901">>, <<"state:", " ", "more">>}}

\* on_message for a server message that is not orders or outreach: the
\* branches phase:, state: and status of the control channel in the order
\* the code tries them; everything else is ignored.
ServerMessage ==
    /\ val.pc = "message"
    /\ LET content == val.content
           st == state_text_of(content)
           did ==
             IF val.channel # "control"
             THEN [out |-> "ignored", game |-> game]
             ELSE IF StartsWithLower(content, "phase:")
             THEN [out |-> "phase_set",
                   game |-> set_game_state(phase_text_of(content), NoneText)]
             ELSE IF StartsWithLower(content, "state:")
             THEN (IF st.raised
                   THEN [out |-> "raised", game |-> game]
                   ELSE [out |-> "state_set", game |-> set_game_state("None", st.text)])
             ELSE IF [i \in 1 .. Len(StripChars(content)) |->
                         LowerWord(StripChars(content)[i])] = <<"status">>
             THEN [out |-> "status", game |-> game]
             ELSE [out |-> "ignored", game |-> game]
       IN  /\ game' = did.game
           /\ val' = [val EXCEPT !.pc = "handled", !.out = did.out]
    /\ UNCHANGED <<now, nev, result, players, threads, cooldown, ai_memory, press_locked,
                   dm, ctl>>

ControlInit ==
    /\ now = MaxClock
    /\ nev = MaxEvents - 1
    /\ players = [u \in Users |->
                    [display_name |-> "n1",
                     country |-> IF u = "u1" THEN "England" ELSE "France"]]
    /\ threads = [u \in {"u1"} |->
                    [messages |-> <<AssistantMsg("o"), UserMsg("dm"), AssistantMsg("re")>>,
                     summary |-> "sA", last_updated |-> 2, summary_last_updated |-> 1]]
    /\ cooldown = [u \in Users |-> 1]
    /\ game \in {[phase |-> "", state_text |-> <<>>],
                  [phase |-> "S1901", state_text |-> <<"board">>]}
    /\ ai_memory = ""
    /\ press_locked = FALSE
    /\ dm = [s \in Slots |-> IdleDM]
    /\ ctl = IdleCtl
    /\ result = Answer("none", NoUser, "", "")
    /\ val \in {[pc |-> "message", channel |-> m.channel, content |-> m.content,
                  out |-> ""] : m \in ServerMessages}

ControlNext ==
    \/ ServerMessage
    \/ DMNext
    \/ OrdersNext
    \/ OutreachNext
    \/ CtlOracleFailed

SpecControl == ControlInit /\ [][ControlNext]_vars

(***************************************************************************)
(* The orders command on a store that already holds threads: both users    *)
(* have claimed, and each has no thread or one that earlier messages and   *)
(* refreshes left.                                                         *)
(***************************************************************************)
RefreshRows ==
    {[messages |-> m, summary |-> sm, last_updated |-> ts[1],
      summary_last_updated |-> ts[2]] :
        m \in {<<UserMsg("dm"), AssistantMsg("re")>>,
               <<AssistantMsg("o"), UserMsg("dm"), AssistantMsg("re")>>},
        sm \in {"", "sA"},
        ts \in {<<1, 1>>, <<2, 1>>, <<2, 2>>}}

RefreshInit ==
    /\ now = MaxClock
    /\ nev = 0
    /\ players = [u \in Users |->
                    [display_name |-> "n1",
                     country |-> IF u = "u1" THEN "England" ELSE "France"]]
    /\ threads \in UNION {[U -> RefreshRows] : U \in SUBSET Users}
    /\ cooldown = [u \in Users |-> 1]
    /\ game = [phase |-> "S1901", state_text |-> <<"board">>]
    /\ ai_memory = ""
    /\ press_locked = FALSE
    /\ dm = [s \in Slots |-> IdleDM]
    /\ ctl = IdleCtl
    /\ result = Answer("none", NoUser, "", "")
    /\ val = IdleVal

RefreshNext == OrdersNext \/ CtlOracleFailed

SpecRefresh == RefreshInit /\ [][RefreshNext]_vars

(***************************************************************************)
(* The claim registry.                                                     *)
(***************************************************************************)
\* A step that handled a claim message whose country was asked for.
ClaimStep == nev' = nev + 1 /\ result'.ev = "claim"

\* The users holding country c, compared as the index compares it.
Holders(p, c) == {v \in DOMAIN p : p[v].country # "" /\ Lower(p[v].country) = Lower(c)}

\* C1: in every reachable state a country has at most one holder, compared
\* case-insensitively, and a claim by a user without a country for a valid
\* country succeeds iff nobody holds it and answers CountryTaken, changing
\* nothing, iff somebody does: of two users asking for the same free country
\* exactly one succeeds, in whatever order their messages are handled.
C1_OneHolderPerCountry ==
    /\ [](\A c \in VALID_COUNTRIES : Cardinality(Holders(players, c)) <= 1)
    /\ [][(ClaimStep /\ result'.asked \in VALID_COUNTRIES
                    /\ get_player_country(result'.user) = "")
            => LET u == result'.user
                   c == result'.asked
               IN  IF Holders(players, c) = {}
                   THEN /\ result'.out = "Registered"
                        /\ Holders(players', c) = {u}
                   ELSE /\ result'.out = "CountryTaken"
                        /\ players' = players]_vars

C1_Witness ==
    /\ result.ev = "claim"
    /\ result.out = "CountryTaken"
    /\ result.user \notin DOMAIN players
    /\ \E v \in DOMAIN players : v # result.user /\ players[v].country = result.asked

\* C2: once a user holds a country, no step changes or removes it, and every
\* later claim by that user for a valid country, the same or another, answers
\* AlreadyClaimed with the stored country.
C2_ClaimIsFinal ==
    [][/\ \A u \in DOMAIN players :
              players[u].country # ""
                  => u \in DOMAIN players' /\ players'[u].country = players[u].country
       /\ (ClaimStep /\ result'.asked \in VALID_COUNTRIES
                     /\ get_player_country(result'.user) # "")
              => /\ result'.out = "AlreadyClaimed"
                 /\ result'.info = players[result'.user].country
                 /\ players' = players]_vars

C2_Witness ==
    /\ result.ev = "claim"
    /\ result.out = "AlreadyClaimed"
    /\ result.asked \in VALID_COUNTRIES
    /\ result.asked # result.info
    /\ players[result.user].country = result.info

(***************************************************************************)
(* The orders-only filter on its own: every text of up to MaxLines lines   *)
(* drawn from order lines of each form and from lines that are none.       *)
(***************************************************************************)
Tab == <<"\t">>

LineSupportHold == <<"F">> \o Sp \o Bur \o Sp \o <<"S">> \o Sp \o LineHold
LineSupportMove == <<"A">> \o Sp \o Mun \o Sp \o <<"S">> \o Sp \o LineMove
LineConvoy == <<"F">> \o Sp \o Mun \o Sp \o <<"C">> \o Sp \o LineMove
LineRetreat == <<"A">> \o Sp \o Par \o Sp \o <<"R">> \o Sp \o Bur
LineDisband == <<"F">> \o Sp \o Bur \o Sp \o <<"D">>
LineBuildArmy == <<"A">> \o Sp \o Par \o Sp \o <<"B">>
LineBuildFleet == <<"F">> \o Sp \o Bur \o Sp \o <<"B">>

OrderLines ==
    {LineHold, LineMove, LineSupportHold, LineSupportMove, LineConvoy, LineRetreat,
     LineDisband, LineBuildArmy, LineBuildFleet}

ValidatorLines ==
    OrderLines \cup
    { LineProse,
      <<>>,                                               \* an empty line
      Sp \o Tab,                                          \* a blank line
      Sp \o Sp \o LineMove \o Tab,                        \* padded
      <<"A">> \o Sp \o Sp \o Par \o Tab \o <<"-">> \o Sp \o Bur,  \* wide gaps
      <<"a">> \o Sp \o Par \o Sp \o <<"H">>,              \* lower-case unit
      <<"A">> \o Sp \o <<"P", "a">> \o Sp \o <<"H">>,     \* two-letter province
      <<"A">> \o Sp \o Par \o <<"i">> \o Sp \o <<"H">>,   \* four-letter province
      <<"A">> \o Sp \o <<"P", "4", "r">> \o Sp \o <<"H">>, \* a digit in it
      LineHold \o Sp \o <<"n", "o", "w">>,                \* trailing words
      <<"-">> \o Sp \o LineHold,                          \* a bullet in front
      <<"A">> \o Sp \o Par \o <<"-">> \o Bur,             \* no gaps round the dash
      <<"A">> \o Par \o Sp \o <<"H">>,                    \* no gap after the unit
      <<"B">> \o Sp \o Par \o Sp \o <<"B">> }             \* a build of no unit

RECURSIVE JoinLines(_)
JoinLines(lines) ==
    IF lines = <<>> THEN <<>>
    ELSE IF Len(lines) = 1 THEN lines[1]
    ELSE lines[1] \o Nl \o JoinLines(Tail(lines))

LineLists == UNION {[1 .. n -> ValidatorLines] : n \in 0 .. MaxLines}

ValInit ==
    /\ SysInit
    /\ val \in {[pc |-> "input", lines |-> ls, text |-> JoinLines(ls), out |-> <<>>] :
                  ls \in LineLists}

\* extract_valid_orders applied to the text.
ValExtract ==
    /\ val.pc = "input"
    /\ val' = [val EXCEPT !.pc = "done", !.out = extract_valid_orders(val.text)]
    /\ UNCHANGED <<now, nev, players, threads, cooldown, game, ai_memory,
                   press_locked, dm, ctl, result>>

ValNext == ValExtract

SpecValidator == ValInit /\ [][ValNext]_vars

(***************************************************************************)
(* The order notation, stated on words: a line is an order when its words  *)
(* are those of one of the nine forms.                                     *)
(***************************************************************************)
NonSpaceAt(l) == {i \in 1 .. Len(l) : ~IsSpace(l[i])}
SetMin(S) == CHOOSE x \in S : \A y \in S : x <= y
SetMax(S) == CHOOSE x \in S : \A y \in S : x >= y

Trimmed(l) ==
    IF NonSpaceAt(l) = {} THEN <<>>
    ELSE SubSeq(l, SetMin(NonSpaceAt(l)), SetMax(NonSpaceAt(l)))

WordStarts(l) == {i \in NonSpaceAt(l) : i = 1 \/ IsSpace(l[i - 1])}
WordEnd(l, i) == SetMax({j \in i .. Len(l) : \A k \in i .. j : ~IsSpace(l[k])})

RECURSIVE WordsFrom(_, _)
WordsFrom(l, starts) ==
    IF starts = {} THEN <<>>
    ELSE LET i == SetMin(starts)
         IN  <<SubSeq(l, i, WordEnd(l, i))>> \o WordsFrom(l, starts \ {i})

Words(l) == WordsFrom(l, WordStarts(l))

IsUnit(w) == w \in {<<"A">>, <<"F">>}
IsProvince(w) == Len(w) = 3 /\ \A i \in 1 .. 3 : IsAlpha(w[i])
IsWord(w, c) == w = <<c>>

IsOrder(l) ==
    LET w == Words(l)
        n == Len(w)
    IN  \/ n = 3 /\ IsUnit(w[1]) /\ IsProvince(w[2]) /\ IsWord(w[3], "H")
        \/ n = 4 /\ IsUnit(w[1]) /\ IsProvince(w[2]) /\ IsWord(w[3], "-")
                 /\ IsProvince(w[4])
        \/ n = 6 /\ IsUnit(w[1]) /\ IsProvince(w[2]) /\ IsWord(w[3], "S")
                 /\ IsUnit(w[4]) /\ IsProvince(w[5]) /\ IsWord(w[6], "H")
        \/ n = 7 /\ IsUnit(w[1]) /\ IsProvince(w[2]) /\ IsWord(w[3], "S")
                 /\ IsUnit(w[4]) /\ IsProvince(w[5]) /\ IsWord(w[6], "-")
                 /\ IsProvince(w[7])
        \/ n = 7 /\ IsUnit(w[1]) /\ IsProvince(w[2]) /\ IsWord(w[3], "C")
                 /\ IsUnit(w[4]) /\ IsProvince(w[5]) /\ IsWord(w[6], "-")
                 /\ IsProvince(w[7])
        \/ n = 4 /\ IsUnit(w[1]) /\ IsProvince(w[2]) /\ IsWord(w[3], "R")
                 /\ IsProvince(w[4])
        \/ n = 3 /\ IsUnit(w[1]) /\ IsProvince(w[2]) /\ IsWord(w[3], "D")
        \/ n = 3 /\ IsWord(w[1], "A") /\ IsProvince(w[2]) /\ IsWord(w[3], "B")
        \/ n = 3 /\ IsWord(w[1], "F") /\ IsProvince(w[2]) /\ IsWord(w[3], "B")

\* The trimmed lines of the list that are orders, in the order of the list.
RECURSIVE OrdersAmong(_)
OrdersAmong(lines) ==
    IF lines = <<>> THEN <<>>
    ELSE (IF IsOrder(Head(lines)) THEN <<Trimmed(Head(lines))>> ELSE <<>>)
            \o OrdersAmong(Tail(lines))

\* C9: for every input text the filter returns exactly the trimmed non-empty
\* lines that are orders of one of the nine forms, in input order; a line of
\* no form is never returned.
C9_FilterExact ==
    val.pc = "done" =>
        /\ val.out = OrdersAmong(val.lines)
        /\ \A i \in 1 .. Len(val.out) : IsOrder(val.out[i])

\* The example of the specification: "A Par - Bur" and "I am attacking".
C9_Witness ==
    /\ val.pc = "done"
    /\ val.lines = <<LineMove, LineProse>>
    /\ val.out = <<LineMove>>


(***************************************************************************)
(* The press lock.                                                         *)
(***************************************************************************)
\* A step that handled an inbound direct message.
DMStep == nev' = nev + 1 /\ result'.ev \in {"dm", "claim"}

\* A step in which the orders command posted its order lines.
OrdersPostedStep ==
    /\ ctl.pc \in {"await_orders", "await_retry"}
    /\ ctl'.pc = "await_journal"
    /\ result'.out = "orders_posted"

\* A step in which the orders command ended without orders.
OrdersFailedStep ==
    \/ nev' = nev + 1 /\ result'.ev = "orders" /\ result'.out = "need_phase_and_state"
    \/ ctl.pc = "await_batch" /\ ctl'.pc = "idle"
    \/ ctl.pc = "await_retry" /\ ctl'.pc = "idle"

\* A step in which the outreach command completed.
OutreachDoneStep ==
    /\ ctl.pc \in {"await_adjudication", "await_proposals", "sending", "sleeping"}
    /\ ctl'.pc = "idle"
    /\ result'.out = "outreach_done"

\* C3: from the step in which orders posted at least one line, the lock stays
\* closed and every direct message is answered with the rejection, until a
\* step in which outreach completes; that step opens the lock whatever it
\* sent, and a direct message handled while the lock is open is not rejected.
C3_RejectedFromOrdersToOutreach ==
    [][/\ (OrdersPostedStep => press_locked')
       /\ ((press_locked /\ ~OutreachDoneStep) => press_locked')
       /\ ((DMStep /\ press_locked) => (result'.out = "locked"))
       /\ (OutreachDoneStep => ~press_locked')
       /\ ((DMStep /\ ~press_locked) => (result'.out # "locked"))]_vars

C3_Witness ==
    /\ press_locked
    /\ result.ev = "dm"
    /\ result.out = "locked"
    /\ get_player_country(result.user) # ""

\* C4: the lock starts open; it goes from open to closed in exactly the steps
\* in which the orders command posts a non-empty list of valid order lines;
\* an orders command that ends for want of phase or state, on a summary
\* response that does not parse, or with no valid line after the retry
\* leaves the lock as it was.
C4_LockedExactlyByOrders ==
    /\ ~press_locked
    /\ [][/\ ((~press_locked /\ press_locked') <=> (~press_locked /\ OrdersPostedStep))
           /\ (OrdersPostedStep =>
                 (/\ result'.lines # <<>>
                  /\ \A i \in 1 .. Len(result'.lines) : IsOrder(result'.lines[i])))
           /\ (OrdersFailedStep => (press_locked' = press_locked))]_vars

C4_Witness ==
    /\ press_locked
    /\ result.out = "orders_posted"
    /\ result.lines = <<LineMove>>
    /\ ctl.gen_calls = 2

\* C5: the lock goes from closed to open in exactly the steps in which the
\* outreach command completes, with any number of messages delivered: none
\* because nobody may receive one, none because the answer was malformed or
\* held nothing deliverable, or some.
C5_UnlockedExactlyByOutreach ==
    [][(press_locked /\ ~press_locked') <=> (press_locked /\ OutreachDoneStep)]_vars

C5_Witness ==
    /\ ~press_locked
    /\ result.out = "outreach_done"
    /\ result.info = "reopened"
    /\ result.count = 0
    /\ get_claims # {}
    /\ ai_memory # ""
    /\ \E u \in DOMAIN players : players[u].country # AI_COUNTRY

\* C6: a direct message handled while the lock is closed leaves every thread,
\* every cooldown record and the claims as they were, and starts no
\* Completion Service call.
C6_LockedDMChangesNothing ==
    [][(DMStep /\ press_locked)
          => /\ threads' = threads
             /\ cooldown' = cooldown
             /\ players' = players
             /\ dm' = dm
             /\ ctl' = ctl
             /\ ai_memory' = ai_memory]_vars

C6_Witness ==
    /\ press_locked
    /\ result.out = "locked"
    /\ get_player_country(result.user) # ""
    /\ CooldownAllows(result.user, now)
    /\ \A s \in Slots : dm[s].pc = "idle"

(***************************************************************************)
(* The batched summary refresh.                                            *)
(***************************************************************************)
\* A summariser response that is not a JSON object of strings over exactly
\* the expected keys.
Malformed(resp, expected) ==
    \/ ~resp.json
    \/ ~resp.isobj
    \/ DOMAIN resp.obj # expected
    \/ \E k \in DOMAIN resp.obj : ~resp.obj[k].isstr

\* A step in which the orders command took the summariser's response.
BatchStep == ctl.pc = "await_batch" /\ ctl'.pc # "await_batch" /\ result'.ev = "orders"

\* C7: when the summariser's response is not JSON, not an object, has a key
\* set other than the expected countries, or has a value that is no string,
\* the step that takes it changes no thread, ends the orders command with
\* the parse failure and issues no order generation call.
C7_MalformedBatchRejected ==
    [][(BatchStep /\ Malformed(result'.raw_sum, DOMAIN ctl.country_to_uid))
          => /\ threads' = threads
             /\ result'.out = "summary_parse_failed"
             /\ ctl' = IdleCtl
             /\ ctl'.gen_calls = 0
             /\ press_locked' = press_locked
             /\ ai_memory' = ai_memory]_vars

C7_Witness ==
    /\ result.out = "summary_parse_failed"
    /\ result.raw_sum.isobj
    /\ DOMAIN result.raw_sum.obj = {"England", "France", "Extra"}
    /\ \A k \in DOMAIN result.raw_sum.obj : result.raw_sum.obj[k].isstr
    /\ \A u \in Users : u \in DOMAIN threads /\ NeedsRefresh(threads[u])

\* needs_refresh of a user's thread in the table th.
needs_refresh(th, u) ==
    \/ th[u].summary_last_updated = EmptyTs
    \/ th[u].last_updated > th[u].summary_last_updated

\* The users the values of a country -> user map name.
UsersOf(m) == {m[c] : c \in DOMAIN m}

\* C8: the orders command selects for the batched refresh exactly the claimed
\* users whose thread has summary_last_updated empty or older than
\* last_updated, and right after a response was applied the condition is
\* false of every user that was selected.
C8_SelectedIffStale ==
    [][/\ (ctl.pc = "idle" /\ result'.ev = "orders" /\ result'.out = "started")
           => LET sel == {u \in DOMAIN players \cap DOMAIN threads :
                            players[u].country # "" /\ needs_refresh(threads, u)}
              IN  IF sel = {}
                  THEN ctl'.pc = "await_orders"
                  ELSE /\ ctl'.pc = "await_batch"
                       /\ UsersOf(ctl'.country_to_uid) = sel
       /\ (ctl.pc = "await_batch" /\ ctl'.pc = "await_orders")
           => \A u \in UsersOf(ctl.country_to_uid) : ~needs_refresh(threads', u)]_vars

C8_Witness ==
    /\ result.out = "summaries_applied"
    /\ ctl.pc = "await_orders"
    /\ DOMAIN result.raw_sum.obj = {"England"}
    /\ DOMAIN threads = Users
    /\ threads["u1"].summary_last_updated = now
    /\ ~needs_refresh(threads, "u1")
    /\ ~needs_refresh(threads, "u2")

(***************************************************************************)
(* Order generation.                                                       *)
(***************************************************************************)
\* The oracle's text holds no valid order line.
NoneValid(text) == extract_valid_orders(text) = <<>>

\* The step posted the valid lines of the text it took, at least one.
PostedFrom(r) ==
    /\ r.out = "orders_posted"
    /\ r.lines # <<>>
    /\ r.lines = extract_valid_orders(r.raw)

\* C10: an orders command calls the order oracle at most twice; the second
\* call is issued exactly when the first answer holds no valid order line;
\* when the second holds none either the command reports the failure and
\* posts nothing; every line ever posted is an order of one of the forms.
C10_RetryOnceThenFail ==
    /\ [](ctl.gen_calls <= 2)
    /\ [][/\ (ctl.pc = "await_orders" /\ ctl'.pc # "await_orders"
                   /\ result'.out # "raised")
               => IF NoneValid(result'.raw)
                  THEN /\ ctl'.pc = "await_retry"
                       /\ ctl'.gen_calls = 2
                       /\ result'.lines = <<>>
                  ELSE /\ PostedFrom(result')
                       /\ ctl'.gen_calls = 1
           /\ (ctl.pc = "await_retry" /\ ctl'.pc # "await_retry"
                   /\ result'.out # "raised")
               => IF NoneValid(result'.raw)
                  THEN /\ result'.out = "no_valid_orders"
                       /\ result'.lines = <<>>
                       /\ ctl' = IdleCtl
                       /\ press_locked' = press_locked
                  ELSE PostedFrom(result')
           /\ (ctl'.pc = "await_retry" /\ ctl.pc # "await_retry")
               => ctl.pc = "await_orders"
           /\ \A i \in 1 .. Len(result'.lines) : IsOrder(result'.lines[i])]_vars

C10_Witness ==
    /\ result.out = "no_valid_orders"
    /\ result.raw = LineProse
    /\ ctl.pc = "idle"

(***************************************************************************)
(* Outreach cycles.                                                        *)
(***************************************************************************)
\* The control records of outreach cycles the state shows: the one running,
\* and the one the last answer closed.
OutreachPcs == {"await_adjudication", "await_proposals", "sending", "sleeping"}
Cycles ==
    (IF ctl.pc \in OutreachPcs THEN {ctl} ELSE {})
        \cup {result.cycle[i] : i \in 1 .. Len(result.cycle)}

\* The countries claimed by somebody, without the AI's own.
AllowedRecipients ==
    {players[u].country : u \in {x \in DOMAIN players : players[x].country # ""}}
        \ {AI_COUNTRY}

\* C11: in a cycle run with budget N, whatever the oracle proposed, at most N
\* messages are delivered, each to a claimed country other than the AI's
\* own, and no country gets two.
C11_BudgetAllowedOncePerRecipient ==
    \A c \in Cycles :
        /\ Len(c.log) <= (IF c.max_messages < 0 THEN 0 ELSE c.max_messages)
        /\ \A i \in 1 .. Len(c.log) :
              /\ c.log[i].to \in AllowedRecipients
              /\ c.log[i].to # AI_COUNTRY
        /\ \A i, j \in 1 .. Len(c.log) : i # j => c.log[i].to # c.log[j].to

C11_Witness ==
    /\ result.out = "outreach_done"
    /\ LET c == result.cycle[1]
       IN  /\ c.max_messages = 1
           /\ Len(c.log) = 1
           /\ c.failed = {}
           /\ Len(c.raw_out.items) = 3
           /\ \A i \in 1 .. 3 :
                 /\ c.raw_out.items[i].isobj
                 /\ c.raw_out.items[i].to.isstr
                 /\ c.raw_out.items[i].message = JStr("o")
           /\ c.raw_out.items[3].to.text = "France"
           /\ "France" \in AllowedRecipients

(***************************************************************************)
(* The cooldown limiter.                                                   *)
(***************************************************************************)
\* C12: a direct message that reaches the limiter is allowed iff its sender
\* has no recorded time or the window has passed since it; an allowed message
\* records its time for its sender and nothing else in the cooldown table; a
\* denied one is dropped without a reply and changes nothing.
C12_CooldownWindow ==
    [][(DMStep /\ ~press_locked)
          => LET u == result'.user
                 allowed == \/ u \notin DOMAIN cooldown
                            \/ now - cooldown[u] >= USER_COOLDOWN_SECONDS
             IN  IF allowed
                 THEN /\ result'.out # "dropped"
                      /\ cooldown' = [x \in DOMAIN cooldown \cup {u} |->
                                        IF x = u THEN now ELSE cooldown[x]]
                 ELSE /\ result'.out = "dropped"
                      /\ UNCHANGED <<players, threads, cooldown, game, ai_memory,
                                     press_locked, dm, ctl>>]_vars

C12_Witness ==
    /\ result.ev = "dm"
    /\ result.out = "accepted"
    /\ now = 1 + USER_COOLDOWN_SECONDS
    /\ cooldown[result.user] = now
    /\ \E s \in Slots : dm[s].user = result.user /\ dm[s].pc # "idle"

(***************************************************************************)
(* The ledger of one user under several handlers.                          *)
(***************************************************************************)
\* C13: the direct messages of one user are persisted in the order received,
\* each followed by its reply, and the handling of one overwrites nothing
\* the handling of another persisted: when a handler saves the ledger it
\* extended, the stored ledger is still the one it loaded, also when a later
\* message arrived while it was waiting for the Completion Service.
C13_SavesOverwriteNothing ==
    [][\A s \in Slots :
          (dm[s].pc = "await_reply" /\ dm'[s].pc = "idle" /\ result'.out = "replied")
              => load_thread(dm[s].user).messages = dm[s].loaded]_vars

(***************************************************************************)
(* Failures of the Completion Service.                                     *)
(***************************************************************************)
\* A step in which the handler in slot s, or the running control-channel
\* command, ends because its Completion Service call raised.
DMFailedStep(s) == dm[s].pc # "idle" /\ dm'[s].pc = "idle" /\ result'.out = "raised"
CtlFailedStep == ctl.pc # "idle" /\ ctl'.pc = "idle" /\ result'.out = "raised"

\* C14: when a Completion Service call fails while a direct message, the
\* orders command or the outreach command is being handled, the event has
\* committed nothing: the failing step changes no thread, summary, cooldown
\* record, press lock or journal, and the event wrote none of them before.
C14_FailedCallCommitsNothing ==
    [][/\ \A s \in Slots :
             DMFailedStep(s)
                 => /\ dm[s].wrote = {}
                    /\ UNCHANGED <<threads, cooldown, press_locked, ai_memory>>
       /\ CtlFailedStep
             => /\ ctl.wrote = {}
                /\ UNCHANGED <<threads, cooldown, press_locked, ai_memory>>]_vars

(***************************************************************************)
(* Failed claims.                                                          *)
(***************************************************************************)
\* A step that handled a claim message and answered with an error: the usage
\* notice for a missing argument, or one of claim_country's three refusals.
FailedClaimStep ==
    /\ nev' = nev + 1
    /\ \/ result'.ev = "dm" /\ result'.out = "usage"
       \/ result'.ev = "claim"
            /\ result'.out \in {"Unknown", "AlreadyClaimed", "CountryTaken"}

\* C15 as stated: a failed claim changes no claim, no thread and no cooldown
\* record.
C15_FailedClaimChangesNoRecord ==
    [][FailedClaimStep => UNCHANGED <<players, threads, cooldown>>]_vars

\* C15: a failed claim changes no claim and no thread, starts no handler, and
\* of the cooldown records changes only the sender's, which the limiter set
\* to the time of the message before the claim was looked at.
C15_FailedClaimChargesOnlyCooldown ==
    [][FailedClaimStep
          => /\ UNCHANGED <<players, threads, game, ai_memory, press_locked, dm, ctl>>
             /\ cooldown' = [x \in DOMAIN cooldown \cup {result'.user} |->
                               IF x = result'.user THEN now ELSE cooldown[x]]]_vars

C15_Witness ==
    /\ result.ev = "claim"
    /\ result.out = "CountryTaken"
    /\ result.user \notin DOMAIN players
    /\ \E u \in DOMAIN players : players[u].country = result.info
    /\ cooldown[result.user] = now
    /\ now > 0

(***************************************************************************)
(* The precondition of orders.                                             *)
(***************************************************************************)
\* A step in which the operator's orders command arrived.
OrdersArrivedStep == nev' = nev + 1 /\ result'.ev = "orders"

\* C16: an orders command that arrives while the phase is empty or the state
\* text is empty or blank is answered with the request for both and does
\* nothing else: no Completion Service call is issued or pending, and no
\* thread, summary, press lock or other record changes.
C16_OrdersNeedPhaseAndState ==
    [][(OrdersArrivedStep
          /\ (game.phase = ""
                \/ \A i \in 1 .. Len(game.state_text) : game.state_text[i] \in {" ", "\n"}))
          => /\ result'.out = "need_phase_and_state"
             /\ ctl' = IdleCtl
             /\ ctl'.sum_calls = 0 /\ ctl'.gen_calls = 0
             /\ UNCHANGED <<players, threads, cooldown, game, ai_memory,
                            press_locked, dm>>]_vars

C16_Witness ==
    /\ result.ev = "orders"
    /\ result.out = "need_phase_and_state"
    /\ game.phase # ""
    /\ game.state_text = <<>>
    /\ threads # <<>>
    /\ ctl = IdleCtl

(***************************************************************************)
(* What an outreach cycle leaves in the threads.                           *)
(***************************************************************************)
\* A step in which a proposal was delivered to its recipient.
OutreachDeliveredStep == ctl.pc = "sending" /\ ctl'.pc = "sleeping"

\* The places of a turn in a ledger.
Places(messages, turn) == {k \in 1 .. Len(messages) : messages[k] = turn}

\* C17: each delivery of a cycle appends the delivered text, once, as an
\* assistant turn at the end of the recipient's thread and changes no other
\* thread; when the cycle ends, the count it returns is the number of its
\* deliveries and every delivered text is in its recipient's thread.
C17_DeliveredCountedAndInThread ==
    [][/\ OutreachDeliveredStep
             => LET d == ctl'.log[Len(ctl'.log)]
                    uid == ctl.country_to_uid[d.to]
                IN  /\ Len(ctl'.log) = Len(ctl.log) + 1
                    /\ threads'[uid].messages =
                           Append(load_thread(uid).messages, AssistantMsg(d.msg))
                    /\ \A u \in DOMAIN threads \ {uid} : threads'[u] = threads[u]
                    /\ DOMAIN threads' = DOMAIN threads \cup {uid}
       /\ OutreachDoneStep
             => LET c == result'.cycle[1]
                IN  /\ result'.count = Len(c.log)
                    /\ \A i \in 1 .. Len(c.log) :
                          LET uid == c.country_to_uid[c.log[i].to]
                          IN  /\ uid \in DOMAIN threads'
                              /\ Places(threads'[uid].messages,
                                        AssistantMsg(c.log[i].msg)) # {}]_vars

(***************************************************************************)
(* Delivery errors in an outreach cycle.                                   *)
(***************************************************************************)
\* A step in which the delivery of the proposal at hand raised.
DeliveryFailedStep == ctl.pc = "sending" /\ ctl'.pc # "sleeping"

\* A proposal the loop would still deliver: to an allowed country to which
\* nothing was delivered yet, with a text.
Deliverable(p, c) ==
    p.to \in DOMAIN c.country_to_uid /\ p.to \notin c.used /\ p.message # ""

\* C18: a delivery error ends neither the cycle nor the command with an
\* error: the proposals after the failed one are still processed, so the
\* loop stops at the next deliverable one if the budget allows; and the
\* error is not retried: no delivery is attempted to a country a delivery to
\* which already failed in the cycle.
C18_DeliveryErrorSkippedNeverRetried ==
    [][/\ DeliveryFailedStep
             => /\ result'.out # "raised"
                /\ LET rest == Tail(ctl.proposals)
                   IN  (ctl.sent < ctl.max_messages
                          /\ \E i \in 1 .. Len(rest) : Deliverable(rest[i], ctl))
                           => ctl'.pc = "sending"
       /\ ctl'.pc = "sending"
             => Head(ctl'.proposals).to \notin ctl'.failed]_vars

(***************************************************************************)
(* The oracle's answer to the outreach prompt.                             *)
(***************************************************************************)
\* A step in which the answer to the outreach prompt was taken.
ProposedStep ==
    ctl.pc = "await_proposals" /\ ctl'.pc # "await_proposals" /\ result'.out # "raised"

\* An item of the array that is an object with string to and message.
WellFormedItem(item) == item.isobj /\ item.to.isstr /\ item.message.isstr

\* The proposals the well-formed items of an array stand for, in order.
ProposalsOf(items) ==
    LET sel == SelectSeq(items, WellFormedItem)
    IN  [i \in 1 .. Len(sel) |->
            [to |-> Strip(sel[i].to.text), message |-> Strip(sel[i].message.text)]]

\* C19: an answer that is not JSON, or is JSON but no array, ends the cycle at
\* once with zero deliveries, no thread changed and no error; of an array,
\* exactly the items that are objects with string to and message become
\* proposals, in their order, whatever the other items are.
C19_OutreachParsedDefensively ==
    [][ProposedStep
          => LET c == IF ctl'.pc = "idle" THEN result'.cycle[1] ELSE ctl'
                 resp == c.raw_out
             IN  /\ threads' = threads
                 /\ (~resp.json \/ ~resp.isarr)
                       => /\ ctl'.pc = "idle"
                          /\ result'.out = "outreach_done"
                          /\ result'.count = 0
                          /\ c.proposals = <<>>
                          /\ c.log = <<>>
                 /\ (resp.json /\ resp.isarr)
                       => IF ctl'.pc = "idle"
                          THEN /\ c.proposals = ProposalsOf(resp.items)
                               /\ result'.out = "outreach_done"
                          ELSE c.proposals =
                                  NextAttempt(ProposalsOf(resp.items), c.country_to_uid,
                                              {}, 0, c.max_messages)]_vars

C19_Witness ==
    /\ result.out = "outreach_done"
    /\ ~result.cycle[1].raw_out.json
    /\ result.cycle[1].country_to_uid # <<>>
    /\ result.cycle[1].max_messages > 0
    /\ result.count = 0
    /\ threads # <<>>

(***************************************************************************)
(* The budget of an outreach cycle.                                        *)
(***************************************************************************)
\* min(max(N, 0), 6), N being 3 when the command names none.
BudgetFor(requested) ==
    LET n == IF requested = NoBudget THEN 3 ELSE requested
        low == IF n < 0 THEN 0 ELSE n
    IN  IF low > 6 THEN 6 ELSE low

\* C20: the budget a cycle runs with is the requested N clamped to 0 .. 6, or
\* 3 when none was requested, and the cycle delivers at most that many
\* messages, also for a negative N and for an N above 6.
C20_BudgetClamped ==
    \A c \in Cycles :
        /\ c.max_messages = BudgetFor(c.requested)
        /\ Len(c.log) <= BudgetFor(c.requested)

C20_Witness ==
    /\ result.out = "outreach_done"
    /\ result.cycle[1].requested = 7
    /\ result.cycle[1].max_messages = 6
    /\ result.count = 2
    /\ Len(result.cycle[1].log) = 2

(***************************************************************************)
(* The phase and the state of the game.                                    *)
(***************************************************************************)
\* A step in which the server message at hand was handled.
ServerStep == val.pc = "message" /\ val'.pc = "handled"

\* A content without the white space in front of it, and without that
\* behind it as well.
Unpadded(text) ==
    LET solid == {i \in 1 .. Len(text) : text[i] \notin {" ", "\t", "\n"}}
    IN  IF solid = {} THEN <<>>
        ELSE SubSeq(text, CHOOSE i \in solid : \A j \in solid : i <= j, Len(text))

Bare(text) ==
    LET solid == {i \in 1 .. Len(text) : text[i] \notin {" ", "\t", "\n"}}
    IN  IF solid = {} THEN <<>>
        ELSE SubSeq(text, CHOOSE i \in solid : \A j \in solid : i <= j,
                          CHOOSE i \in solid : \A j \in solid : i >= j)

\* C21: a control-channel message that starts with the phase prefix sets the
\* phase to the text after the prefix and leaves the state text as it is;
\* one that starts with the state prefix leaves the phase as it is and, the
\* prefix typed as `state:`, sets the state text to the text after it; every
\* other server message (status, other content, another channel) and every
\* step of a direct message, of orders and of outreach leaves both as they
\* are.
C21_GameSetOnlyByItsCommands ==
    [][IF ServerStep /\ val.channel = "control" /\ val.content # <<>>
          /\ val.content[1] \in {"phase:", "Phase:", "PHASE:"}
       THEN /\ game'.state_text = game.state_text
            /\ LET ph == Bare(Tail(val.content))
               IN  game'.phase = IF ph = <<>> THEN "" ELSE ph[1]
       ELSE IF ServerStep /\ val.channel = "control" /\ val.content # <<>>
                /\ val.content[1] \in {"state:", "State:", "STATE:"}
       THEN /\ game'.phase = game.phase
            /\ val.content[1] = "state:"
                  => game'.state_text = Unpadded(Tail(val.content))
       ELSE game' = game]_vars

C21_Witness ==
    /\ val.pc = "handled"
    /\ val.channel = "control"
    /\ val.content = <<"phase:">>
    /\ game = [phase |-> "", state_text |-> <<"board">>]

\* C28: the state command is recognised whatever the capitalisation of its
\* prefix, and whether its text is on the same line or goes on over the
\* following lines, it completes without an error and sets the state text
\* to the text after the prefix.
C28_StatePrefixAnyCase ==
    [][(ServerStep /\ val.channel = "control" /\ val.content # <<>>
          /\ val.content[1] \in {"state:", "State:", "STATE:"})
          => /\ val'.out = "state_set"
             /\ game'.state_text = Unpadded(Tail(val.content))]_vars

(***************************************************************************)
(* Negotiation messages.                                                   *)
(***************************************************************************)
\* A step that handled a direct message which got past the press lock and
\* the limiter and is not the claim command, with or without its country.
NegotiationStep ==
    /\ DMStep
    /\ result'.out \notin {"locked", "dropped"}
    /\ result'.head \notin {"claim", "Claim", "CLAIM"}

\* C22: a direct message that is not the claim command and got past the
\* gates is, from a sender without a claim, answered with the request to
\* claim first, with no thread changed and no handler left waiting for the
\* Completion Service; from a sender with a claim it is appended as a user
\* turn to the ledger loaded for the sender, and the reply is saved after
\* it on that ledger.
C22_NegotiationNeedsClaim ==
    [][/\ NegotiationStep
             => LET u == result'.user
                IN  IF u \notin DOMAIN players \/ players[u].country = ""
                    THEN /\ result'.out = "need_claim"
                         /\ UNCHANGED <<players, threads, dm>>
                    ELSE /\ result'.out = "accepted"
                         /\ \E s \in Slots :
                               /\ dm[s].pc = "idle"
                               /\ dm'[s].pc \in {"await_summary", "await_reply"}
                               /\ dm'[s].user = u
                               /\ dm'[s].msgs =
                                     Append(load_thread(u).messages,
                                            UserMsg(result'.head))
                               /\ \A t \in Slots \ {s} : dm'[t] = dm[t]
       /\ \A s \in Slots :
             (dm[s].pc = "await_reply" /\ result'.out = "replied" /\ dm'[s].pc = "idle")
                 => /\ dm[s].msgs[Len(dm[s].msgs)].role = "user"
                    /\ threads'[dm[s].user].messages =
                          Append(dm[s].msgs, AssistantMsg(result'.info))]_vars

(***************************************************************************)
(* The orders cycle.                                                       *)
(***************************************************************************)
\* The claimed users whose thread is stale.
StaleUsers ==
    {u \in DOMAIN players \cap DOMAIN threads :
        players[u].country # "" /\ needs_refresh(threads, u)}

\* C23: an orders command issues one Completion Service call for summaries
\* when it starts and some claimed user's thread is stale, however many
\* are, and none when no thread is stale; it issues no further one while it
\* runs.
C23_OneSummaryCallPerOrders ==
    [][/\ ctl'.sum_calls <= 1
       /\ (OrdersArrivedStep /\ result'.out = "started")
             => ctl'.sum_calls = IF StaleUsers = {} THEN 0 ELSE 1
       /\ (ctl.pc # "idle" /\ ctl'.pc # "idle") => ctl'.sum_calls = ctl.sum_calls]_vars

C23_Witness ==
    /\ ctl.pc = "await_batch"
    /\ ctl.sum_calls = 1
    /\ Cardinality(StaleUsers) = 2
    /\ UsersOf(ctl.country_to_uid) = StaleUsers

\* C24: within an orders command the batched refresh comes first: threads
\* change only before any order generation call, and when the first such
\* call is issued no claimed user's thread is stale; order generation is
\* called at most twice; the press lock closes only in a step that posts at
\* least one order line, after a generation call; the journal is written
\* only after that, while the lock is closed, and what is written is the
\* new text alone, not the old journal with the text added.
C24_OrdersStepsInOrder ==
    [][/\ threads' # threads => (ctl.pc = "await_batch" /\ ctl.gen_calls = 0)
       /\ (ctl.gen_calls = 0 /\ ctl'.gen_calls = 1) => StaleUsers' = {}
       /\ ctl'.gen_calls <= 2
       /\ (~press_locked /\ press_locked')
             => /\ ctl.gen_calls >= 1
                /\ result'.out = "orders_posted"
                /\ result'.lines # <<>>
                /\ ctl'.pc = "await_journal"
       /\ (ctl.pc = "await_journal" /\ ctl'.pc = "idle" /\ result'.out # "raised")
             => /\ press_locked /\ press_locked'
                /\ result.out = "orders_posted"
                /\ ai_memory' \in Journals
       /\ ai_memory' # ai_memory => ctl.pc = "await_journal"]_vars

C24_Witness ==
    /\ ctl = IdleCtl
    /\ result.out = "orders_posted"
    /\ Len(result.lines) = 2
    /\ press_locked
    /\ ai_memory = "j1"
    /\ nev = 2
    /\ \E u \in DOMAIN threads :
          threads[u].summary_last_updated = now /\ threads[u].summary = "sB"

\* The ledger cut to its last two entries.
LastTwo(messages) ==
    [i \in 1 .. (IF Len(messages) < 2 THEN Len(messages) ELSE 2) |->
        messages[Len(messages) - (IF Len(messages) < 2 THEN Len(messages) ELSE 2) + i]]

\* C25: when a batched refresh succeeds, for each country key of the
\* response the thread of the user who holds that country gets the
\* response's summary for the key, its ledger cut to its last two entries
\* and summary_last_updated set to now; every other thread keeps its
\* summary, ledger and timestamps.
C25_RefreshWritesEachHolder ==
    [][(BatchStep /\ result'.out = "summaries_applied")
          => LET obj == result'.raw_sum.obj
                 holders == {u \in DOMAIN players : players[u].country \in DOMAIN obj}
             IN  /\ DOMAIN threads' = DOMAIN threads
                 /\ holders \subseteq DOMAIN threads
                 /\ \A u \in holders :
                       /\ threads'[u].summary = obj[players[u].country].text
                       /\ threads'[u].messages = LastTwo(threads[u].messages)
                       /\ threads'[u].summary_last_updated = now
                       /\ threads'[u].last_updated = threads[u].last_updated
                 /\ \A u \in DOMAIN threads \ holders : threads'[u] = threads[u]]_vars

C25_Witness ==
    /\ result.out = "summaries_applied"
    /\ DOMAIN result.raw_sum.obj = {"France"}
    /\ result.raw_sum.obj["France"].text = "sB"
    /\ DOMAIN threads = Users
    /\ threads["u2"] = [messages |-> <<UserMsg("dm"), AssistantMsg("re")>>,
                        summary |-> "sB", last_updated |-> 2,
                        summary_last_updated |-> 2]
    /\ Len(threads["u1"].messages) = 3
    /\ threads["u1"].summary = "sA"

\* A negotiation DM was answered and its thread saved.
DMRepliedStep == result'.ev = "reply" /\ result'.out = "replied" /\ result' # result

\* The threads a step wrote: the rows that are new or differ.
WrittenThreads ==
    {u \in DOMAIN threads' : u \notin DOMAIN threads \/ threads'[u] # threads[u]}

\* C26: the batched refresh is the only operation that clears staleness:
\* an answered negotiation DM, with or without inline compaction, and an
\* outreach delivery never take an existing thread from stale to not stale,
\* and every thread they wrote is stale afterwards.
C26_OnlyRefreshClearsStaleness ==
    [][(DMRepliedStep \/ OutreachDeliveredStep)
          => /\ \A u \in DOMAIN threads :
                   needs_refresh(threads, u) => needs_refresh(threads', u)
             /\ \A u \in WrittenThreads : needs_refresh(threads', u)]_vars

\* The handler in slot s passed the claim test and entered
\* maybe_summarize_thread with the ledger dm'[s].msgs.
CompactionEnteredStep(s) == dm[s].pc = "idle" /\ dm'[s].pc # "idle"

\* maybe_summarize_thread of slot s returned after its call.
CompactionReturnedStep(s) == dm[s].pc = "await_summary" /\ dm'[s].pc = "await_reply"

\* C27: inline compaction runs iff the ledger is longer than K.  When it
\* runs the ledger becomes its last K messages in their order, the removed
\* prefix is what was sent for summarisation and the flag is true; when the
\* ledger has at most K messages, ledger and summary stay as they were, no
\* summary call is made and the flag is false.
C27_InlineCompactionIffLongerThanK ==
    [][\A s \in Slots :
          /\ CompactionEnteredStep(s)
                => LET u == dm'[s].user
                       before == load_thread(u)
                       ledger == dm'[s].msgs
                   IN  /\ ledger = Append(before.messages, UserMsg(result'.head))
                       /\ (dm'[s].pc = "await_summary")
                             <=> (Len(ledger) > RAW_TURNS_TO_KEEP)
                       /\ (dm'[s].pc = "await_summary")
                             => /\ Len(dm'[s].older) = Len(ledger) - RAW_TURNS_TO_KEEP
                                /\ \A i \in 1 .. Len(dm'[s].older) :
                                      dm'[s].older[i] = ledger[i]
                       /\ (dm'[s].pc = "await_reply")
                             => /\ dm'[s].summary = before.summary
                                /\ dm'[s].older = <<>>
                                /\ ~dm'[s].did_refresh
          /\ CompactionReturnedStep(s)
                => /\ Len(dm'[s].msgs) = RAW_TURNS_TO_KEEP
                   /\ dm[s].older \o dm'[s].msgs = dm[s].msgs
                   /\ dm'[s].did_refresh
                   /\ dm'[s].summary \in Summaries]_vars

C27_Witness ==
    \E s \in Slots :
        /\ dm[s].pc = "await_reply"
        /\ dm[s].did_refresh
        /\ dm[s].older = <<UserMsg("dm")>>
        /\ dm[s].msgs = <<AssistantMsg("re"), UserMsg("dm")>>
        /\ dm[s].summary = "sA"

\* The messages of a ledger that reach the payload: the last K that have a
\* role and a content.
RECURSIVE WithRoleAndContent(_)
WithRoleAndContent(messages) ==
    IF messages = <<>> THEN <<>>
    ELSE (IF Head(messages).role # "" /\ Head(messages).len > 0
          THEN <<Head(messages)>> ELSE <<>>) \o WithRoleAndContent(Tail(messages))

NoOuterSpace(messages) == \A i \in 1 .. Len(messages) : ~messages[i].pad

\* C29: in the payload of the batched refresh every message is capped at the
\* configured MAX_CHARS_PER_MSG, whatever its value: a message longer than
\* the cap is cut to the cap and followed by the marker, a message not
\* longer than the cap appears whole and without the marker.  (Stated for
\* messages that carry no outer white space.)
C29_PayloadMessagesCapped ==
    (val.pc = "built")
       => \A c \in DOMAIN val.rows :
             LET sent == WithRoleAndContent(LastN(val.rows[c].messages,
                                                  RAW_TURNS_TO_KEEP))
                 recent == val.payload[c].recent
             IN  NoOuterSpace(val.rows[c].messages)
                    => /\ Len(recent) = Len(sent)
                       /\ \A i \in 1 .. Len(sent) :
                             IF sent[i].len > val.cap
                             THEN recent[i].chars = val.cap /\ recent[i].marker
                             ELSE recent[i].chars = sent[i].len /\ ~recent[i].marker

C29_AtDefaultCap ==
    (val.pc = "built" /\ val.cap = MAX_CHARS_PER_MSG_DEFAULT) => C29_PayloadMessagesCapped

\* C30: in every reachable state each persisted message ledger holds at most
\* K + 1 messages, K being RAW_TURNS_TO_KEEP.
C30_LedgerAtMostKPlusOne ==
    \A u \in DOMAIN threads : Len(threads[u].messages) <= RAW_TURNS_TO_KEEP + 1

\* Message m is one of the messages of the sequence sent.
AmongSent(m, sent) == \E j \in 1 .. Len(sent) : sent[j] = m

\* C31: no message is dropped unsummarised: every message a compaction
\* removes from a ledger, the inline one that keeps the last K or the
\* batched one that keeps the last two, was in the transcript given to the
\* Completion Service call whose summary that compaction stores.
C31_NoMessageDroppedUnsummarised ==
    [][/\ \A s \in Slots :
             CompactionReturnedStep(s)
                => \A i \in 1 .. Len(dm[s].msgs) - Len(dm'[s].msgs) :
                      AmongSent(dm[s].msgs[i], dm[s].older)
       /\ (BatchStep /\ result'.out = "summaries_applied")
             => \A c \in DOMAIN ctl.country_to_uid :
                   LET u == ctl.country_to_uid[c]
                   IN  \A i \in 1 .. Len(threads[u].messages) - Len(threads'[u].messages) :
                          AmongSent(threads[u].messages[i], ctl.recent[c])]_vars

\* The batched refresh was applied by this step.
RefreshAppliedStep == BatchStep /\ result'.out = "summaries_applied"

\* C32: once a negotiation DM of a claimed user has been handled, its user
\* turn and reply saved, the user's thread is stale, the first DM that
\* creates the thread included, and a stale thread stays stale until a
\* batched refresh is applied, so the next orders command selects it.
C32_HandledDMLeavesThreadStale ==
    [][/\ DMRepliedStep
             => /\ result'.user \in DOMAIN threads'
                /\ needs_refresh(threads', result'.user)
                /\ result'.user \in DOMAIN players
                      => result'.user \in {u \in DOMAIN threads' \cap DOMAIN players :
                                              NeedsRefresh(threads'[u])}
       /\ ~RefreshAppliedStep
             => \A u \in DOMAIN threads :
                   needs_refresh(threads, u) => needs_refresh(threads', u)]_vars

\* The positions of the log at which a message of u passed the gate.
PassedAt(log, u) == {i \in 1 .. Len(log) : log[i].user = u /\ log[i].allowed}

\* C33: for direct messages arriving at non-decreasing times, two messages
\* of one user that pass the cooldown gate are at least a window apart; a
\* dropped message does not extend the window, last_message_at being the
\* time of the user's last message that passed; and the messages of one
\* user never change the record of another.
C33_PassedMessagesAWindowApart ==
    (val.pc = "gate")
       => /\ \A i, j \in 1 .. Len(val.log) :
                (i < j /\ val.log[i].user = val.log[j].user
                       /\ val.log[i].allowed /\ val.log[j].allowed)
                   => val.log[j].at - val.log[i].at >= val.window
          /\ DOMAIN cooldown = {u \in Users : PassedAt(val.log, u) # {}}
          /\ \A u \in DOMAIN cooldown :
                LET last == CHOOSE i \in PassedAt(val.log, u) :
                               \A j \in PassedAt(val.log, u) : j <= i
                IN  cooldown[u] = val.log[last].at

C33_Witness ==
    /\ val.pc = "gate"
    /\ val.window = 2
    /\ val.log = <<[user |-> "u1", at |-> 1, allowed |-> TRUE],
                   [user |-> "u1", at |-> 2, allowed |-> FALSE],
                   [user |-> "u2", at |-> 2, allowed |-> TRUE],
                   [user |-> "u1", at |-> 3, allowed |-> TRUE]>>
    /\ cooldown = [u \in Users |-> IF u = "u1" THEN 3 ELSE 2]

\* A step of the handling of a negotiation DM, and the user whose message it
\* handles: the arrival of a message that is not the claim command, or a
\* step of a handler that waits for the Completion Service.
HandlerStep(s) == dm[s].pc # "idle" /\ dm'[s] # dm[s]

\* The step leaves everything but u's thread and u's cooldown record.
OnlyOwn(u) ==
    /\ players' = players
    /\ game' = game
    /\ press_locked' = press_locked
    /\ ai_memory' = ai_memory
    /\ DOMAIN threads \subseteq DOMAIN threads'
    /\ DOMAIN threads' \subseteq DOMAIN threads \cup {u}
    /\ \A x \in DOMAIN threads \ {u} : threads'[x] = threads[x]
    /\ DOMAIN cooldown \subseteq DOMAIN cooldown'
    /\ DOMAIN cooldown' \subseteq DOMAIN cooldown \cup {u}
    /\ \A x \in DOMAIN cooldown \ {u} : cooldown'[x] = cooldown[x]

\* The handler of slot s has just built the prompt of its reply.
PromptBuiltStep(s) == dm[s].pc # "await_reply" /\ dm'[s].pc = "await_reply"

\* C34: the handling of a negotiation DM of user U changes only U's thread
\* and U's cooldown record: the threads of the other users, the claims, the
\* phase and state and the press lock stay as they are; and the prompt built
\* for the reply carries U's country, the summary of U's thread (as loaded,
\* or as the inline compaction of U's ledger returned it) and U's ledger
\* with the new user turn, and nothing of another thread.
C34_DMTouchesOnlyItsSender ==
    [][/\ NegotiationStep => OnlyOwn(result'.user)
       /\ \A s \in Slots :
             /\ HandlerStep(s) => OnlyOwn(dm[s].user)
             /\ PromptBuiltStep(s)
                   => LET u == dm'[s].user
                          p == dm'[s].prompt
                      IN  /\ p.who = players[u].country
                          /\ p.convo = dm'[s].msgs
                          /\ \A i \in 1 .. Len(p.convo) :
                                \/ AmongSent(p.convo[i], dm'[s].loaded)
                                \/ (i = Len(p.convo) /\ p.convo[i].role = "user")
                          /\ IF dm[s].pc = "idle"
                             THEN p.summary = load_thread(u).summary
                             ELSE /\ p.summary \in Summaries
                                  /\ \A i \in 1 .. Len(dm[s].older) :
                                        AmongSent(dm[s].older[i], dm[s].msgs)]_vars

C34_Witness ==
    \E s \in Slots, x \in DOMAIN threads \cap DOMAIN players :
        /\ dm[s].pc = "await_reply"
        /\ dm[s].user \in DOMAIN players
        /\ dm[s].user # x
        /\ dm[s].user \notin DOMAIN threads
        /\ Len(threads[x].messages) = 2
        /\ dm[s].prompt = [who |-> players[dm[s].user].country, summary |-> "",
                           convo |-> <<UserMsg("dm")>>]
        /\ cooldown[dm[s].user] = now

\* The handler of slot s saves its thread in this step.
DMSavedStep(s) == dm[s].pc = "await_reply" /\ dm'[s].pc = "idle" /\ result'.out = "replied"

\* C35: updates of a thread are not lost between events handled at the same
\* time: when the save of a DM handler finds in the store a ledger or a
\* summary written since the handler loaded the thread, by an outreach
\* delivery or by a batched refresh, the thread it leaves still holds every
\* message written meanwhile, and still holds the stored summary unless the
\* handler's own compaction replaced it.
C35_NoUpdateLostToWaitingDM ==
    [][\A s \in Slots :
          (DMSavedStep(s) /\ dm[s].user \in DOMAIN threads)
             => LET u == dm[s].user
                    stored == threads[u]
                IN  /\ \A i \in 1 .. Len(stored.messages) :
                          AmongSent(stored.messages[i], dm[s].loaded)
                             \/ AmongSent(stored.messages[i], threads'[u].messages)
                    /\ (~dm[s].did_refresh /\ stored.summary # dm[s].summary)
                          => threads'[u].summary = stored.summary]_vars

\* C36: under every interleaving of the events in progress, no negotiation
\* reply is asked of the Completion Service, sent or appended to a thread
\* while the press lock is closed, the reply to a DM that arrived while it
\* was open and was still waiting when an orders command closed it included.
C36_NoReplyWhileLocked ==
    [][\A s \in Slots :
          (PromptBuiltStep(s) \/ DMSavedStep(s)) => (~press_locked /\ ~press_locked')]_vars
====
